---- MODULE Spec2Model ----
(***************************************************************************)
(* A model of the blog extractor (src/blog_extractor.py) and of its CLI    *)
(* driver (src/extract.py).                                                *)
(*                                                                         *)
(* Part 1 models the HTML pipeline as pure operators on parsed trees:      *)
(*   clean_html -> html_to_gutenberg -> element_to_gutenberg_block.        *)
(* Part 2 models one BlogExtractor as a state machine: the sequential      *)
(* loop of extract.py calling extract_blog_data, and the asyncio workers   *)
(* of process_urls_concurrently.  Part 3 states the properties.            *)
(*                                                                         *)
(* Specifications:                                                         *)
(*   Spec      sequential run (extract.py main, loop at 237-282)           *)
(*   SpecConc  concurrent run (process_urls_concurrently)                  *)
(*   SpecRun   a run of either kind                                        *)
(*   SpecHtml  the HTML pipeline applied to a bounded set of fragments     *)
(*   SpecTwice the pipeline applied a second time to its own output        *)
(*   SpecXml   save_to_xml writing posts with bounded contents and dates   *)
(*   SpecMeta  title, author, categories and tags of one parsed page       *)
(*   SpecContent  extract_content on a bounded set of pages                *)
(*   SpecCli   the concurrent branch of extract.py main (179-222), with    *)
(*             and without --quiet                                         *)
(*   SpecIds   the post and attachment IDs of the feed, over hash values   *)
(*   SpecFetch fetch_content / fetch_content_async, attempt by attempt,    *)
(*             with weak fairness of the running call                      *)
(*   SpecDownload  the image download tasks of two posts processed         *)
(*             concurrently, one step per stretch between two awaits       *)
(***************************************************************************)
EXTENDS Integers, Sequences, FiniteSets, TLC

VARIABLES
    \* ---- configuration of the BlogExtractor (constructor arguments)
    urls,             \* the URL list handed to the run (load_urls result)
    skip_duplicates,  \* self.skip_duplicates
    download_images,  \* self.download_images
    include_images,   \* self.include_images
    max_concurrent,   \* argument of process_urls_concurrently
    \* ---- the site: what the pure extraction functions give for each page
    content_of,       \* extract_content(page) for every page
    images_of,        \* extract_images_from_content(content) for every content
    \* ---- state of the BlogExtractor
    seen_hashes,      \* self.seen_hashes
    extracted_data,   \* self.extracted_data
    \* ---- the sequential driver (extract.py main)
    next_url,         \* loop position: index of the next URL to extract
    fetched,          \* what fetch_content returned for each call made so far
    results,          \* what each call returned (NoRecord before the call)
    success_count,    \* counters of main
    duplicate_count,
    run_state,        \* "running"/"gathering", "returned", "saved", and "raised"
                      \* when an exception left save_to_xml
    feed,             \* items written by save_to_xml / get_xml_content
    \* ---- the concurrent driver (process_urls_concurrently)
    pc,               \* position of each worker task
    task_content,     \* local variable content of a task suspended in a download
    sem_value,        \* asyncio.Semaphore._value
    sem_waiters,      \* asyncio.Semaphore._waiters (FIFO)
    raw_results,      \* what asyncio.gather collects per task
    processed_results,\* the list process_urls_concurrently returns
    \* ---- the HTML pipeline (SpecHtml)
    stage,            \* "source", "cleaned", "converted", and "recleaned",
                      \* "reconverted" after a second call
    source_html,      \* the fragment handed to clean_html
    html,             \* the fragment as it stands at this stage
    blocks,           \* the blocks html_to_gutenberg emitted
    recleaned,        \* what clean_html gives for its own output
    reconverted,      \* what a second html_to_gutenberg call gives
    \* ---- the feed writer in detail (SpecXml)
    xml_data,         \* the posts of self.extracted_data handed to save_to_xml
    xml_next,         \* loop position of save_to_xml: the next post to write
    xml_items,        \* the <item> elements written to the file so far
    \* ---- the metadata of one page (SpecMeta): extract_blog_data, 1495-1507
    soup,             \* the elements of the parsed page the selectors can match
    meta_pc,          \* position in extract_blog_data: the next field to extract
    title,            \* local variables of extract_blog_data
    author,
    categories,
    post_tags,        \* the local variable tags
    \* ---- one call of fetch_content / fetch_content_async (SpecFetch)
    fetch_call,       \* which function, its max_retries, and the module and
                      \* constructor flags it reads
    fetch_pc,         \* the loop the call stands in; "done" after the return
    fetch_attempt,    \* the loop variable attempt
    fetch_log,        \* the attempts made and the delay slept after each
    fetch_result,     \* the return value; None when every attempt failed
    \* ---- the concurrent branch of extract.py main (SpecCli)
    quiet,            \* args.quiet
    progress_calls,   \* the results update_progress was called with, in order
    \* ---- the IDs written for a post and one of its images (SpecIds)
    url_hash,         \* hash(post["url"])
    src_hash,         \* hash(image_src)
    written_ids,      \* the wp:post_id values written so far
    \* ---- the image downloads of posts processed concurrently (SpecDownload)
    image_posts,      \* per post: the src list of its images and where the post stands
    download_tasks,   \* the _download_image_async coroutines created so far
    downloaded_images, \* self.downloaded_images: URL -> local path (NoPath: no entry)
    images_dir,       \* the paths that exist in self.images_dir
    download_log      \* the GET requests sent and the files opened for writing

vars == << urls, skip_duplicates, download_images, include_images, max_concurrent,
           content_of, images_of,
           seen_hashes, extracted_data, next_url, fetched, results,
           success_count, duplicate_count, run_state, feed,
           pc, task_content, sem_value, sem_waiters, raw_results, processed_results,
           stage, source_html, html, blocks, recleaned, reconverted,
           xml_data, xml_next, xml_items,
           soup, meta_pc, title, author, categories, post_tags,
           fetch_call, fetch_pc, fetch_attempt, fetch_log, fetch_result,
           quiet, progress_calls,
           url_hash, src_hash, written_ids,
           image_posts, download_tasks, downloaded_images, images_dir, download_log >>

configVars == << urls, skip_duplicates, download_images, include_images, max_concurrent,
                content_of, images_of >>
seqVars == << next_url, results >>
concVars == << pc, task_content, sem_value, sem_waiters, raw_results, processed_results >>
htmlVars == << stage, source_html, html, blocks, recleaned, reconverted >>
xmlVars == << xml_data, xml_next, xml_items >>
metaVars == << soup, meta_pc, title, author, categories, post_tags >>
fetchVars == << fetch_call, fetch_pc, fetch_attempt, fetch_log, fetch_result >>
cliVars == << quiet, progress_calls >>
idVars == << url_hash, src_hash, written_ids >>
downloadVars == << image_posts, download_tasks, downloaded_images, images_dir, download_log >>

(***************************************************************************)
(* PART 1.  The HTML pipeline.                                             *)
(*                                                                         *)
(* A parsed tree is a sequence (forest) of nodes, the children of the      *)
(* BeautifulSoup object.  A node is a record: tag ("#text" for a           *)
(* NavigableString), text (a sequence of one-character strings, for text   *)
(* nodes), kids (the children) and attrs (the attribute dict as a          *)
(* function from attribute names to values).                               *)
(***************************************************************************)
NoAttrs == [a \in {} |-> ""]

Text(s) == [tag |-> "#text", text |-> s, kids |-> <<>>, attrs |-> NoAttrs]

Elem(t, ks) == [tag |-> t, text |-> <<>>, kids |-> ks, attrs |-> NoAttrs]

ElemA(t, as, ks) == [tag |-> t, text |-> <<>>, kids |-> ks, attrs |-> as]

IsText(n) == n.tag = "#text"

Space == Text(<< " " >>)

Whitespace == {" ", "\n"}

HeadingTags == {"h1", "h2", "h3", "h4", "h5", "h6"}

RECURSIVE Reverse(_)
Reverse(s) == IF s = <<>> THEN <<>> ELSE Reverse(Tail(s)) \o <<Head(s)>>

\* Tag.get_text(): the concatenation of every string below the nodes of f
RECURSIVE GetText(_)
GetText(f) ==
    IF f = <<>> THEN <<>>
    ELSE LET n == Head(f)
         IN  (IF IsText(n) THEN n.text ELSE GetText(n.kids)) \o GetText(Tail(f))

RECURSIVE LStrip(_)
LStrip(s) == IF s # <<>> /\ Head(s) \in Whitespace THEN LStrip(Tail(s)) ELSE s

\* str.rstrip()
RStrip(s) == Reverse(LStrip(Reverse(s)))

\* str.strip()
Strip(s) == RStrip(LStrip(s))

\* re.sub(r'\s+', ' ', s)
RECURSIVE CollapseWs(_)
CollapseWs(s) ==
    IF s = <<>> THEN <<>>
    ELSE IF Head(s) \in Whitespace
         THEN << " " >> \o CollapseWs(LStrip(s))
         ELSE << Head(s) >> \o CollapseWs(Tail(s))

\* tag.get_text(strip=True) is truthy: some string below n is not blank
HasVisibleText(n) == Strip(GetText(<<n>>)) # <<>>

\* every element (Tag) below the nodes of f, in document order: find_all()
RECURSIVE Descendants(_)
Descendants(f) ==
    IF f = <<>> THEN <<>>
    ELSE LET n == Head(f)
         IN  (IF IsText(n) THEN <<>> ELSE <<n>> \o Descendants(n.kids))
             \o Descendants(Tail(f))

TagsIn(f) == { Descendants(f)[k].tag : k \in 1..Len(Descendants(f)) }

CountTag(f, tags) == Cardinality({ k \in 1..Len(Descendants(f)) : Descendants(f)[k].tag \in tags })

(***************************************************************************)
(* clean_html (src/blog_extractor.py 850-1107), pass by pass.  The input   *)
(* domain of the model has no comments, no <br> and no empty <span> pairs, *)
(* so the two regex rewrites on the raw string (861-880), the comment      *)
(* removal (888-891) and the <br> replacement (923-927) find nothing to    *)
(* do; the character replacements (853-859) act on characters the model's  *)
(* alphabet does not contain.                                              *)
(***************************************************************************)
ButtonClasses == {"btn", "button", "btn-primary", "btn btn-cta"}

\* any('btn' in cls.lower() or 'button' in cls.lower() for cls in classes)
IsButtonClass(c) == c \in ButtonClasses

HasAttr(n, a) == a \in DOMAIN n.attrs

SetAttr(n, a, v) == [n EXCEPT !.attrs = (a :> v) @@ n.attrs]

KeepAttrs(n, allowed) == [n EXCEPT !.attrs = [a \in (DOMAIN n.attrs) \cap allowed |-> n.attrs[a]]]

IsButton(n) == ~IsText(n) /\ HasAttr(n, "data-is-button") /\ n.attrs["data-is-button"] = "true"

\* 893-921: a link whose class names a button is marked and its class
\* standardised; the data-dotagging-* defaults are added when absent
\* (data-dotagging-event stands for the seven of them).
MarkButton(n) ==
    IF n.tag = "a" /\ HasAttr(n, "class") /\ IsButtonClass(n.attrs["class"])
    THEN LET m == SetAttr(SetAttr(n, "data-is-button", "true"), "class", "btn btn-cta")
         IN  IF HasAttr(m, "data-dotagging-event") THEN m
             ELSE SetAttr(m, "data-dotagging-event", "cta_interaction")
    ELSE n

RECURSIVE MarkButtons(_)
MarkButtons(f) ==
    IF f = <<>> THEN <<>>
    ELSE LET n == Head(f)
         IN  (IF IsText(n) THEN <<n>>
              ELSE <<[MarkButton(n) EXCEPT !.kids = MarkButtons(n.kids)]>>)
             \o MarkButtons(Tail(f))

LazyAttrs == {"data-pin-media", "data-load-done", "data-ssr-src-done", "data-pin-url"}

\* 929-941: a lazy-loaded image takes its src from data-pin-media
FixLazyImage(n) ==
    IF n.tag = "img" /\ HasAttr(n, "data-pin-media") /\ n.attrs["data-pin-media"] # ""
    THEN KeepAttrs(SetAttr(n, "src", n.attrs["data-pin-media"]), (DOMAIN n.attrs \cup {"src"}) \ LazyAttrs)
    ELSE n

RECURSIVE FixLazyImages(_)
FixLazyImages(f) ==
    IF f = <<>> THEN <<>>
    ELSE LET n == Head(f)
         IN  (IF IsText(n) THEN <<n>>
              ELSE <<[FixLazyImage(n) EXCEPT !.kids = FixLazyImages(n.kids)]>>)
             \o FixLazyImages(Tail(f))

\* 943-951: without include_images every <img> is replaced by a space
\* before and a space after it
RECURSIVE RemoveImages(_)
RemoveImages(f) ==
    IF f = <<>> THEN <<>>
    ELSE LET n == Head(f)
         IN  (IF IsText(n) THEN <<n>>
              ELSE IF n.tag = "img" THEN <<Space, Space>>
              ELSE <<[n EXCEPT !.kids = RemoveImages(n.kids)]>>)
             \o RemoveImages(Tail(f))

\* 955-963
AllowedTags(inc) ==
    {"p", "h1", "h2", "h3", "h4", "h5", "h6", "strong", "em", "u", "ul", "ol", "li",
     "blockquote", "pre", "code", "a"} \cup (IF inc THEN {"img"} ELSE {})

\* 973
UnwrapTags == {"div", "span", "section", "article", "header", "footer", "nav"}

\* 974-981: tag.unwrap() for every tag of the set, a space inserted after
\* the tag first when it holds visible text
RECURSIVE UnwrapForest(_, _)
UnwrapForest(f, tags) ==
    IF f = <<>> THEN <<>>
    ELSE LET n == Head(f)
         IN  (IF IsText(n) THEN <<n>>
              ELSE IF n.tag \in tags
                   THEN UnwrapForest(n.kids, tags)
                        \o (IF HasVisibleText(n) THEN <<Space>> ELSE <<>>)
              ELSE <<[n EXCEPT !.kids = UnwrapForest(n.kids, tags)]>>)
             \o UnwrapForest(Tail(f), tags)

NormalizeTagName_KeepB(t) ==
    CASE t = "i" -> "em"
      [] t = "h1" -> "h2"
      [] OTHER -> t

NormalizeTagName_KeepH1(t) ==
    CASE t = "b" -> "strong"
      [] t = "i" -> "em"
      [] OTHER -> t

\* 983-997: b -> strong, i -> em, h1 -> h2
NormalizeTagName(t) ==
    CASE t = "b" -> "strong"
      [] t = "i" -> "em"
      [] t = "h1" -> "h2"
      [] OTHER -> t

RECURSIVE NormalizeTags(_)
NormalizeTags(f) ==
    IF f = <<>> THEN <<>>
    ELSE LET n == Head(f)
         IN  (IF IsText(n) THEN <<n>>
              ELSE <<[n EXCEPT !.tag = NormalizeTagName(n.tag), !.kids = NormalizeTags(n.kids)]>>)
             \o NormalizeTags(Tail(f))

DataAttrs == {"data-is-button", "data-dotagging-event"} \cup LazyAttrs

\* 966-969 and 1003-1009: the attributes an allowed element keeps
AllowedAttrs(n) ==
    IF n.tag = "a" /\ IsButton(n) THEN {"href", "class"} \cup DataAttrs
    ELSE IF n.tag = "a" THEN {"href", "class", "data-is-button"}
    ELSE IF n.tag = "img" THEN {"src", "alt", "title", "width", "height", "class"}
    ELSE {}

\* 999-1019: an allowed element keeps its allowed attributes, any other
\* element is unwrapped (a space after it when it holds visible text)
RECURSIVE CleanAttributes(_, _)
CleanAttributes(f, allowed) ==
    IF f = <<>> THEN <<>>
    ELSE LET n == Head(f)
         IN  (IF IsText(n) THEN <<n>>
              ELSE IF n.tag \in allowed
                   THEN <<[KeepAttrs(n, AllowedAttrs(n)) EXCEPT !.kids = CleanAttributes(n.kids, allowed)]>>
              ELSE CleanAttributes(n.kids, allowed)
                   \o (IF HasVisibleText(n) THEN <<Space>> ELSE <<>>))
             \o CleanAttributes(Tail(f), allowed)

\* the node without the descendants whose tag is in tags (each was extract()ed)
RECURSIVE StripTags(_, _)
StripTags(f, tags) ==
    IF f = <<>> THEN <<>>
    ELSE LET n == Head(f)
         IN  (IF IsText(n) THEN <<n>>
              ELSE IF n.tag \in tags THEN <<>>
              ELSE <<[n EXCEPT !.kids = StripTags(n.kids, tags)]>>)
             \o StripTags(Tail(f), tags)

\* the descendants whose tag is in tags, in document order (find_all), each
\* as it stands once the later ones have been extracted out of it
RECURSIVE Extracted(_, _)
Extracted(f, tags) ==
    IF f = <<>> THEN <<>>
    ELSE LET n == Head(f)
         IN  (IF IsText(n) THEN <<>>
              ELSE IF n.tag \in tags
                   THEN <<[n EXCEPT !.kids = StripTags(n.kids, tags)]>> \o Extracted(n.kids, tags)
              ELSE Extracted(n.kids, tags))
             \o Extracted(Tail(f), tags)

\* 1021-1031, 1036-1045, 1047-1056: for every element whose tag is in
\* outer, each descendant whose tag is in inner is extracted and inserted
\* before that element (insert_before keeps their document order)
RECURSIVE HoistBefore(_, _, _)
HoistBefore(f, outer, inner) ==
    IF f = <<>> THEN <<>>
    ELSE LET n == Head(f)
         IN  (IF IsText(n) THEN <<n>>
              ELSE IF n.tag \in outer
                   THEN Extracted(n.kids, inner)
                        \o <<[n EXCEPT !.kids = StripTags(n.kids, inner)]>>
              ELSE <<[n EXCEPT !.kids = HoistBefore(n.kids, outer, inner)]>>)
             \o HoistBefore(Tail(f), outer, inner)

ListTags == {"ul", "ol"}

\* children that all stay in the list
ValidChildren_All(ks) == ks

\* 1064-1066: the direct children of a list that are elements other than <li>
InvalidChildren(ks) == SelectSeq(ks, LAMBDA k : ~IsText(k) /\ k.tag # "li")

ValidChildren(ks) == SelectSeq(ks, LAMBDA k : IsText(k) \/ k.tag = "li")

\* 1069-1072: each invalid child in turn is inserted right after the list,
\* so the last one inserted stands first
InsertedAfter(invalid) == Reverse(invalid)

\* 1058-1072: every <ul>/<ol> loses its direct non-<li> element children,
\* which become its following siblings
RECURSIVE HoistFromLists(_)
HoistFromLists(f) ==
    IF f = <<>> THEN <<>>
    ELSE LET n == Head(f)
         IN  (IF IsText(n) THEN <<n>>
              ELSE IF n.tag \in ListTags
                   THEN <<[n EXCEPT !.kids = HoistFromLists(ValidChildren(n.kids))]>>
                        \o HoistFromLists(InsertedAfter(InvalidChildren(n.kids)))
              ELSE <<[n EXCEPT !.kids = HoistFromLists(n.kids)]>>)
             \o HoistFromLists(Tail(f))

\* 1078-1082: whitespace runs collapse in every string below the paragraph
RECURSIVE NormalizeStrings(_)
NormalizeStrings(f) ==
    IF f = <<>> THEN <<>>
    ELSE LET n == Head(f)
         IN  (IF IsText(n) THEN <<Text(CollapseWs(n.text))>>
              ELSE <<[n EXCEPT !.kids = NormalizeStrings(n.kids)]>>)
             \o NormalizeStrings(Tail(f))

\* 1085-1093: the first child, when a string, is lstripped and the last
\* child, when a string, is rstripped
TrimEnds(ks) ==
    IF ks = <<>> THEN ks
    ELSE LET a == IF IsText(ks[1]) THEN [ks EXCEPT ![1] = Text(LStrip(ks[1].text))] ELSE ks
             l == Len(a)
         IN  IF IsText(a[l]) THEN [a EXCEPT ![l] = Text(RStrip(a[l].text))] ELSE a

\* 1096-1097: not text_content or len(text_content) < 2
IsEmptyParagraph(p) == Len(Strip(GetText(p.kids))) < 2

\* 1074-1098: whitespace normalisation of paragraphs, empty ones decomposed
RECURSIVE PruneParagraphs(_)
PruneParagraphs(f) ==
    IF f = <<>> THEN <<>>
    ELSE LET n == Head(f)
         IN  (IF IsText(n) THEN <<n>>
              ELSE IF n.tag = "p"
                   THEN LET q == [n EXCEPT !.kids = TrimEnds(NormalizeStrings(n.kids))]
                        IN  IF IsEmptyParagraph(q) THEN <<>>
                            ELSE <<[q EXCEPT !.kids = PruneParagraphs(q.kids)]>>
              ELSE <<[n EXCEPT !.kids = PruneParagraphs(n.kids)]>>)
             \o PruneParagraphs(Tail(f))

\* adjacent strings are one string once the output is parsed again, and an
\* empty string is no node
RECURSIVE MergeStrings(_)
MergeStrings(f) ==
    IF f = <<>> THEN <<>>
    ELSE LET n == Head(f)
             rest == MergeStrings(Tail(f))
         IN  IF IsText(n)
             THEN IF n.text = <<>> THEN rest
                  ELSE IF rest # <<>> /\ IsText(Head(rest))
                       THEN <<Text(n.text \o Head(rest).text)>> \o Tail(rest)
                       ELSE <<n>> \o rest
             ELSE <<[n EXCEPT !.kids = MergeStrings(n.kids)]>> \o rest

\* 1103-1105: re.sub(r'<p>\s+', '<p>') and re.sub(r'\s+</p>', '</p>')
RECURSIVE TrimParagraphMarkup(_)
TrimParagraphMarkup(f) ==
    IF f = <<>> THEN <<>>
    ELSE LET n == Head(f)
         IN  (IF IsText(n) THEN <<n>>
              ELSE IF n.tag = "p"
                   THEN <<[n EXCEPT !.kids = TrimEnds(TrimParagraphMarkup(n.kids))]>>
              ELSE <<[n EXCEPT !.kids = TrimParagraphMarkup(n.kids)]>>)
             \o TrimParagraphMarkup(Tail(f))

\* 1101-1107 and 1115: str(soup).strip(), the two regexes, and the tree
\* BeautifulSoup(html_content, 'html.parser') gives back for that string
Reparse(f) == MergeStrings(TrimEnds(TrimParagraphMarkup(MergeStrings(f))))

\* clean_html, 850-1107
clean_html(f, inc) ==
    LET marked   == MarkButtons(f)
        imaged   == IF inc THEN FixLazyImages(marked) ELSE RemoveImages(marked)
        unwrapped == UnwrapForest(imaged, UnwrapTags)
        renamed  == NormalizeTags(unwrapped)
        allowed  == CleanAttributes(renamed, AllowedTags(inc))
        headings == HoistBefore(allowed, {"p"}, HeadingTags)
        images   == IF inc
                    THEN HoistBefore(HoistBefore(headings, {"p"}, {"img"}), HeadingTags, {"img"})
                    ELSE headings
        lists    == HoistFromLists(images)
    IN  Reparse(PruneParagraphs(lists))

(***************************************************************************)
(* html_to_gutenberg (1109-1174) and element_to_gutenberg_block            *)
(* (1176-1251).  A block is a record: block (the name in the               *)
(* <!-- wp:NAME --> markers), level (the "level" attribute of a heading    *)
(* marker, 0 when the marker has none) and html (the nodes between the     *)
(* markers).  The output string is the blocks joined by blank lines, so    *)
(* the empty string is the empty sequence of blocks.                       *)
(***************************************************************************)
\* markers that number the block by the posts extracted so far
Block_Numbered(name, level, nodes) ==
    [block |-> name, level |-> Len(extracted_data), html |-> nodes]

Block(name, level, nodes) == [block |-> name, level |-> level, html |-> nodes]

RECURSIVE StripButtons(_)
StripButtons(f) ==
    IF f = <<>> THEN <<>>
    ELSE LET n == Head(f)
         IN  (IF IsText(n) THEN <<n>>
              ELSE IF n.tag = "a" /\ IsButton(n) THEN <<>>
              ELSE <<[n EXCEPT !.kids = StripButtons(n.kids)]>>)
             \o StripButtons(Tail(f))

\* p.find_all('a', attrs={'data-is-button': 'true'}), each as extracted
RECURSIVE ExtractedButtons(_)
ExtractedButtons(f) ==
    IF f = <<>> THEN <<>>
    ELSE LET n == Head(f)
         IN  (IF IsText(n) THEN <<>>
              ELSE IF n.tag = "a" /\ IsButton(n)
                   THEN <<[n EXCEPT !.kids = StripButtons(n.kids)]>> \o ExtractedButtons(n.kids)
              ELSE ExtractedButtons(n.kids))
             \o ExtractedButtons(Tail(f))

\* 1117-1128: button links leave their paragraph and follow it
\* (p.insert_after for each in turn, so the last one stands first)
RECURSIVE HoistButtons(_)
HoistButtons(f) ==
    IF f = <<>> THEN <<>>
    ELSE LET n == Head(f)
         IN  (IF IsText(n) THEN <<n>>
              ELSE IF n.tag = "p"
                   THEN <<[n EXCEPT !.kids = StripButtons(n.kids)]>>
                        \o Reverse(ExtractedButtons(n.kids))
              ELSE <<[n EXCEPT !.kids = HoistButtons(n.kids)]>>)
             \o HoistButtons(Tail(f))

\* 1139
BlockLevelTags == {"p", "h1", "h2", "h3", "h4", "h5", "h6", "ul", "ol", "blockquote", "pre", "img"}

\* 1196: level = int(tag_name[1])
HeadingLevel(t) ==
    CASE t = "h1" -> 1 [] t = "h2" -> 2 [] t = "h3" -> 3
      [] t = "h4" -> 4 [] t = "h5" -> 5 [] t = "h6" -> 6

\* 1216-1237: the image block carries src and, when not empty, alt
ImageMarkup(n) ==
    LET src == IF HasAttr(n, "src") THEN n.attrs["src"] ELSE ""
        alt == IF HasAttr(n, "alt") THEN n.attrs["alt"] ELSE ""
    IN  ElemA("img", IF alt # "" THEN [a \in {"src", "alt"} |-> IF a = "src" THEN src ELSE alt]
                     ELSE [a \in {"src"} |-> src], <<>>)

\* element_to_gutenberg_block, 1176-1251
element_to_gutenberg_block(n) ==
    IF n.tag = "a" /\ IsButton(n)
        THEN Block("html", 0, <<KeepAttrs(n, (DOMAIN n.attrs) \ {"data-is-button"})>>)
    ELSE IF n.tag = "p" THEN Block("paragraph", 0, <<n>>)
    ELSE IF n.tag \in HeadingTags THEN Block("heading", HeadingLevel(n.tag), <<n>>)
    ELSE IF n.tag \in ListTags THEN Block("list", 0, <<n>>)
    ELSE IF n.tag = "blockquote"
        THEN Block("quote", 0, <<ElemA("blockquote", [a \in {"class"} |-> "wp-block-quote"], n.kids)>>)
    ELSE IF n.tag = "pre"
        THEN IF "code" \in TagsIn(n.kids)
             THEN Block("code", 0, <<Text(GetText(n.kids))>>)
             ELSE Block("preformatted", 0, <<n>>)
    ELSE IF n.tag = "img" THEN Block("image", 0, <<ImageMarkup(n)>>)
    ELSE Block("paragraph", 0, <<Elem("p", <<n>>)>>)

\* a paragraph block for each accumulated part
Flush_Each(parts) == [k \in 1..Len(parts) |-> Block("paragraph", 0, << Elem("p", << parts[k] >>) >>)]

\* 1141-1144: the accumulated inline content becomes one paragraph block
Flush(parts) ==
    IF parts = <<>> THEN <<>> ELSE <<Block("paragraph", 0, <<Elem("p", parts)>>)>>

\* 1136-1172: the walk over soup.children
RECURSIVE WalkChildren(_, _)
WalkChildren(f, parts) ==
    IF f = <<>> THEN Flush(parts)
    ELSE LET n == Head(f)
         IN  IF IsText(n)
             THEN WalkChildren(Tail(f), IF Strip(n.text) # <<>> THEN Append(parts, n) ELSE parts)
             ELSE IF n.tag \in BlockLevelTags \/ IsButton(n)
                  THEN Flush(parts) \o <<element_to_gutenberg_block(n)>> \o WalkChildren(Tail(f), <<>>)
                  ELSE WalkChildren(Tail(f), Append(parts, n))

\* html_to_gutenberg, 1109-1174
html_to_gutenberg(f) ==
    IF Strip(GetText(f)) = <<>> /\ Descendants(f) = <<>> THEN <<>>
    ELSE WalkChildren(HoistButtons(f), <<>>)

(***************************************************************************)
(* The fragments SpecHtml feeds to the pipeline: every tree of depth at    *)
(* most MaxDepth over SourceTags whose elements hold one child, or one     *)
(* child followed by a second one, and every pair of trees of depth <= 1.  *)
(***************************************************************************)
MaxDepth == 2

Word == << "h", "i" >>

Char == << "x" >>

Leaves ==
    { Text(Word), Text(Char),
      ElemA("img", [a \in {"src"} |-> "/pic.jpg"], <<>>),
      ElemA("a", [a \in {"class", "href"} |-> IF a = "class" THEN "btn-primary" ELSE "/go"], <<Text(Word)>>) }

SourceTags == {"p", "h1", "h3", "div", "ul", "li", "b", "blockquote"}

SecondKids == { Text(Word), Elem("h1", <<Text(Word)>>) }

RECURSIVE Trees(_)
Trees(d) ==
    IF d = 0 THEN Leaves
    ELSE LET sub == Trees(d - 1)
         IN  sub \cup { Elem(t, <<k>>) : t \in SourceTags, k \in sub }
                 \cup { Elem(c[1], <<c[2], c[3]>>) : c \in SourceTags \X sub \X SecondKids }

\* <ul><p>note</p><li>item</li></ul>
MisplacedListChild ==
    << Elem("ul", << Elem("p", <<Text(<<"n", "o", "t", "e">>)>>),
                     Elem("li", <<Text(<<"i", "t", "e", "m">>)>>) >>) >>

\* <p>hi <span>hi</span> hi</p>
SpanInParagraph ==
    << Elem("p", << Text(Word \o <<" ">>), Elem("span", <<Text(Word)>>), Text(<<" ">> \o Word) >>) >>

Scenarios == { MisplacedListChild, SpanInParagraph }

Fragments(d) ==
    { <<n>> : n \in Trees(d) } \cup { <<pair[1], pair[2]>> : pair \in Trees(1) \X Trees(1) }
        \cup Scenarios

InitHtml ==
    /\ stage = "source"
    /\ source_html \in Fragments(MaxDepth)
    /\ html = source_html
    /\ blocks = <<>>
    /\ recleaned = <<>>
    /\ reconverted = <<>>

\* the call cleaned_html = self.clean_html(html_content), 844
CleanHtml ==
    /\ stage = "source"
    /\ html' = clean_html(html, include_images)
    /\ stage' = "cleaned"
    /\ UNCHANGED << source_html, blocks, recleaned, reconverted >>

\* the call gutenberg_content = self.html_to_gutenberg(cleaned_html), 845
HtmlToGutenberg ==
    /\ stage = "cleaned"
    /\ blocks' = html_to_gutenberg(html)
    /\ stage' = "converted"
    /\ UNCHANGED << source_html, html, recleaned, reconverted >>

(***************************************************************************)
(* PART 2.  The BlogExtractor and its drivers.                             *)
(*                                                                         *)
(* A fetched page is one of Pages; None is what fetch_content returns when *)
(* every attempt failed.  A page has a body (the content area the          *)
(* selectors of extract_content find) and the body's text is or is not     *)
(* longer than 100 characters.  Converted content is named by the first    *)
(* page that converts to it: two pages have the same content exactly when  *)
(* clean_html and html_to_gutenberg give the same blocks for both.         *)
(***************************************************************************)
NUrls == 3

MaxConcurrent == 2

None == 0

Pages == {1, 2, 3, 4}

Picture == ElemA("img", [a \in {"src", "width"} |-> IF a = "src" THEN "https://cdn/pic.jpg" ELSE "640"], <<>>)

\* content_elem of each page (792)
PageBody(page) ==
    CASE page = 1 -> << Elem("p", <<Text(Word)>>) >>
      [] page = 2 -> << Elem("h1", <<Text(Word)>>), Elem("p", <<Text(Word)>>) >>
      [] page = 3 -> << Elem("div", << Elem("h1", <<Text(Word)>>),
                                       Elem("p", <<Text(Word \o <<" ">>)>>) >>) >>
      [] page = 4 -> << Elem("p", <<Text(Word), Picture>>) >>

\* 841-842: text_content and len(text_content) > 100
IsSubstantial(page) == page # 1

Converted(page, inc) == html_to_gutenberg(clean_html(PageBody(page), inc))

\* the conversion of every page, computed once
ConvertedPages == [inc \in BOOLEAN |-> [page \in Pages |-> Converted(page, inc)]]

EmptyContent == 0

\* the content string of a page, named by the first page that converts to it
ContentOf(page, inc) ==
    IF ConvertedPages[inc][page] = <<>> THEN EmptyContent
    ELSE CHOOSE q \in Pages :
            /\ ConvertedPages[inc][q] = ConvertedPages[inc][page]
            /\ \A r \in Pages : ConvertedPages[inc][r] = ConvertedPages[inc][page] => q <= r

\* extract_content, 763-848: "" unless a content area holds substantial text
extract_content(page, inc) ==
    IF ~IsSubstantial(page) THEN EmptyContent ELSE ContentOf(page, inc)

RECURSIVE BlocksHtml(_)
BlocksHtml(bs) == IF bs = <<>> THEN <<>> ELSE Head(bs).html \o BlocksHtml(Tail(bs))

ImageSources(bs) ==
    LET imgs == SelectSeq(Descendants(BlocksHtml(bs)),
                          LAMBDA n : n.tag = "img" /\ HasAttr(n, "src") /\ n.attrs["src"] # "")
    IN  [k \in 1..Len(imgs) |-> imgs[k].attrs["src"]]

ContentImages == [inc \in BOOLEAN |-> [page \in Pages |-> ImageSources(ConvertedPages[inc][page])]]

\* extract_images_from_content, 1379-1404: the src of every <img> that has one
extract_images_from_content(content, inc) ==
    IF content = EmptyContent THEN <<>> ELSE ContentImages[inc][content]

\* a digest on which all contents collide
get_content_hash_Collide(content) == << "blake2s", 0 >>

\* get_content_hash, 198-200: a digest, one per content
get_content_hash(content) == << "blake2s", content >>

\* A result dict.  A key the code does not set is modelled by "" (error),
\* EmptyContent (content) and <<>> (images); the metadata keys (title,
\* author, date, categories, tags, links, platform) are not modelled.
NoRecord == [status |-> "none", url |-> 0, error |-> "", content |-> EmptyContent, images |-> <<>>]

\* 1488-1492
FailedRecord(url) ==
    [status |-> "failed", url |-> url, error |-> "Could not fetch content",
     content |-> EmptyContent, images |-> <<>>]

\* 1519-1524
DuplicateRecord(url) ==
    [status |-> "duplicate", url |-> url, error |-> "Duplicate content",
     content |-> EmptyContent, images |-> <<>>]

\* 1535-1548
SuccessRecord(url, content, images) ==
    [status |-> "success", url |-> url, error |-> "", content |-> content, images |-> images]

\* a membership test that never finds the hash
IsDuplicate_Never(content_hash, seen) == FALSE

\* a membership test that finds every hash
IsDuplicate_Always(content_hash, seen) == TRUE

\* 1516: content_hash in self.seen_hashes
IsDuplicate(content_hash, seen) == content_hash \in seen

\* a test that takes None for a page
FetchFailed_Never(page) == FALSE

\* 1487: if not html_content
FetchFailed(page) == page = None

\* an extraction that forgets the hashes it has seen when it meets a duplicate
Extraction_Forgetful(url, page, content, found_images, seen, skip, inc) ==
    IF FetchFailed(page)
    THEN [ret |-> FailedRecord(url), seen |-> seen, post |-> FALSE]
    ELSE IF content # EmptyContent /\ IsDuplicate(get_content_hash(content), seen) /\ skip
    THEN [ret |-> DuplicateRecord(url), seen |-> {}, post |-> FALSE]
    ELSE [ret |-> SuccessRecord(url, content, IF inc THEN found_images ELSE <<>>),
          seen |-> IF content # EmptyContent THEN seen \cup {get_content_hash(content)} ELSE seen,
          post |-> TRUE]

\* The synchronous body of extract_blog_data (1494-1551) and of
\* extract_blog_data_async (1566-1605) once the page is fetched, given what
\* extract_content and extract_images_from_content return for it: the dict
\* to return (ret), the new seen_hashes, and whether the dict is post data
\* bound for extracted_data.
Extraction(url, page, content, found_images, seen, skip, inc) ==
    IF FetchFailed(page)
    THEN [ret |-> FailedRecord(url), seen |-> seen, post |-> FALSE]
    ELSE IF content # EmptyContent /\ IsDuplicate(get_content_hash(content), seen) /\ skip
    THEN [ret |-> DuplicateRecord(url), seen |-> seen, post |-> FALSE]
    ELSE [ret |-> SuccessRecord(url, content, IF inc THEN found_images ELSE <<>>),
          seen |-> IF content # EmptyContent THEN seen \cup {get_content_hash(content)} ELSE seen,
          post |-> TRUE]

(***************************************************************************)
(* Feed serialisation: save_to_xml (2295-2308) and get_xml_content         *)
(* (2390-2400) write one item per post of extracted_data whose status is   *)
(* 'success', each followed by one attachment item per image (2218-2220).  *)
(***************************************************************************)
PostItem(post) == [post_type |-> "post", link |-> post.url, attachment_url |-> ""]

AttachmentItem(post, src) == [post_type |-> "attachment", link |-> src, attachment_url |-> src]

\* _write_xml_post, 2153-2220
write_xml_post(post) ==
    <<PostItem(post)>> \o [k \in 1..Len(post.images) |-> AttachmentItem(post, post.images[k])]

\* a filter that writes no post
IsExported_None(post) == FALSE

\* 2302 and 2396: if post['status'] == 'success'
IsExported(post) == post.status = "success"

RECURSIVE get_xml_content(_)
get_xml_content(data) ==
    IF data = <<>> THEN <<>>
    ELSE (IF IsExported(Head(data)) THEN write_xml_post(Head(data)) ELSE <<>>)
         \o get_xml_content(Tail(data))

PostItems(items) == SelectSeq(items, LAMBDA it : it.post_type = "post")

(***************************************************************************)
(* Feed serialisation in detail: save_to_xml (2295-2308), _write_xml_post  *)
(* (2153-2220), _convert_relative_urls_to_absolute (2074-2151) and         *)
(* _write_xml_attachment (2222-2293).                                      *)
(*                                                                         *)
(* A post's content is modelled as BeautifulSoup parses it: a sequence of  *)
(* symbols, each a character (ch) or an <img> element (ch = "img", with    *)
(* its src).  raw marks a character inside a comment, which the parser     *)
(* keeps and writes back verbatim.  A string is a sequence of symbols      *)
(* without the raw flag.  A URL is a record of the parts urlparse gives.   *)
(***************************************************************************)
MaxContent == 2

Url(scheme, netloc, rooted, path) ==
    [scheme |-> scheme, netloc |-> netloc, rooted |-> rooted, path |-> path]

\* src=""
NoSrc == Url("", "", FALSE, <<>>)

\* the forms an image src takes in a source page: none, /img/a.png, a.png,
\* //cdn/a.png, data:image/png;base64,AAAA and https://cdn/a.png
SrcList ==
    << NoSrc,
       Url("", "", TRUE, <<"img", "a.png">>),
       Url("", "", FALSE, <<"a.png">>),
       Url("", "cdn", TRUE, <<"a.png">>),
       Url("data", "", FALSE, <<"image/png;base64,AAAA">>),
       Url("https", "cdn", TRUE, <<"a.png">>) >>

SrcForms == { SrcList[k] : k \in DOMAIN SrcList }

\* post["url"]: https://site/blog/a and https://site/blog/b
PostUrls == << Url("https", "site", TRUE, <<"blog", "a">>), Url("https", "site", TRUE, <<"blog", "b">>) >>

\* hash(str): an integer for every URL that is hashed
StrHash(u) ==
    IF u \in SrcForms THEN CHOOSE k \in DOMAIN SrcList : SrcList[k] = u
    ELSE Len(SrcList) + (CHOOSE k \in DOMAIN PostUrls : PostUrls[k] = u)

\* src_str.startswith(('http://', 'https://'))
IsHttp(u) == u.scheme \in {"http", "https"}

\* urllib.parse.urljoin(base_url, src_str)
urljoin(base, u) ==
    IF u.scheme # "" THEN u
    ELSE IF u.netloc # "" THEN [u EXCEPT !.scheme = base.scheme]
    ELSE IF u.rooted THEN [u EXCEPT !.scheme = base.scheme, !.netloc = base.netloc]
    ELSE Url(base.scheme, base.netloc, TRUE, SubSeq(base.path, 1, Len(base.path) - 1) \o u.path)

\* _resolve_image_url, 1965-2030: a URL that is not a known dynamic endpoint
\* (webdamdb.com, display.php, dealer.com with a query) is returned as it is
\* (1992-1995); SrcList holds no dynamic endpoint
resolve_image_url(u) == u

ContentChar(c, raw) == [ch |-> c, raw |-> raw, src |-> NoSrc]

ContentImg(u) == [ch |-> "img", raw |-> FALSE, src |-> u]

Sym(c) == [ch |-> c, src |-> NoSrc]

Chars(cs) == [k \in DOMAIN cs |-> Sym(cs[k])]

\* the string a content stands for (post["content"])
Str(content) == [k \in DOMAIN content |-> [ch |-> content[k].ch, src |-> content[k].src]]

\* 1735-1774: NFKD and the replacement table; of the characters of the
\* model only the em dash (U+2014) is replaced, by '--'
RECURSIVE normalize_unicode(_)
normalize_unicode(content) ==
    IF content = <<>> THEN <<>>
    ELSE (IF Head(content).ch = "em-dash"
          THEN << [Head(content) EXCEPT !.ch = "-"], [Head(content) EXCEPT !.ch = "-"] >>
          ELSE << Head(content) >>) \o normalize_unicode(Tail(content))

\* soup.decode(formatter="minimal"), 2151: '&', '<' and '>' of a text are
\* written as entities, a comment is written as it was read
RECURSIVE decode(_)
decode(content) ==
    IF content = <<>> THEN <<>>
    ELSE LET n == Head(content)
         IN  (CASE n.raw \/ n.ch = "img" -> << [ch |-> n.ch, src |-> n.src] >>
                [] n.ch = ">" -> Chars(<< "&", "g", "t", ";" >>)
                [] n.ch = "<" -> Chars(<< "&", "l", "t", ";" >>)
                [] n.ch = "&" -> Chars(<< "&", "a", "m", "p", ";" >>)
                [] OTHER -> << Sym(n.ch) >>) \o decode(Tail(content))

\* 2126-2147: the src of one <img src=...>
ConvertSrc(u, base_url) ==
    LET joined == IF u # NoSrc /\ ~IsHttp(u) /\ u.scheme # "data" THEN urljoin(base_url, u) ELSE u
    IN  IF IsHttp(joined) THEN resolve_image_url(joined) ELSE joined

\* _convert_relative_urls_to_absolute, 2074-2151, of a content without links
convert_relative_urls_to_absolute(content, base_url) ==
    IF content = <<>> THEN <<>>
    ELSE decode([k \in DOMAIN content |->
                    IF content[k].ch = "img"
                    THEN [content[k] EXCEPT !.src = ConvertSrc(content[k].src, base_url)]
                    ELSE content[k]])

\* str.replace(old, new)
RECURSIVE Replace(_, _, _)
Replace(s, old, new) ==
    IF Len(s) < Len(old) THEN s
    ELSE IF SubSeq(s, 1, Len(old)) = old
    THEN new \o Replace(SubSeq(s, Len(old) + 1, Len(s)), old, new)
    ELSE << Head(s) >> \o Replace(Tail(s), old, new)

CdataOpen == Chars(<< "<", "!", "[", "C", "D", "A", "T", "A", "[" >>)

CdataClose == Chars(<< "]", "]", ">" >>)

\* 2176-2180: what is written between <content:encoded> and </content:encoded>
ContentEncoded(content, base_url) ==
    CdataOpen
    \o Replace(convert_relative_urls_to_absolute(normalize_unicode(content), base_url),
               CdataClose, Chars(<< "]", "]" >>) \o CdataClose \o CdataOpen \o Chars(<< ">" >>))
    \o CdataClose

\* extract_images_from_content, 1379-1404, on a content of the feed model:
\* the src of every <img> whose src is not empty
ImagesOf(content) ==
    LET imgs == SelectSeq(content, LAMBDA n : n.ch = "img" /\ n.src # NoSrc)
    IN  [k \in DOMAIN imgs |-> imgs[k].src]

\* 2166-2167: abs(hash(post["url"]) % 1000000) + 1
PostId(url) == (StrHash(url) % 1000000) + 1

\* an attachment writer that takes its own position for the parent
write_xml_attachment_Swapped(image, post_id, parent_post_id, date_formats) ==
    [post_type |-> "attachment",
     post_id |-> (StrHash(image) % 1000000) + 1000000,
     post_parent |-> post_id,
     pub_date |-> date_formats,
     content_encoded |-> CdataOpen \o CdataClose,
     attachment_url |-> image]

\* 2225-2237: image_src and attachment_id; 2273-2291: the item, of which
\* the model keeps post_id, post_parent, post_type, attachment_url and the
\* dates
write_xml_attachment(image, post_id, parent_post_id, date_formats) ==
    LET image_src == IF IsHttp(image) THEN resolve_image_url(image) ELSE image
    IN  [post_type |-> "attachment",
         post_id |-> (StrHash(image_src) % 1000000) + 1000000,
         post_parent |-> parent_post_id,
         pub_date |-> date_formats,
         content_encoded |-> CdataOpen \o CdataClose,
         attachment_url |-> image_src]

\* 2169-2216: the item of the post; 2218-2220: its attachments
XmlPostItems(post, date_formats) ==
    << [post_type |-> "post",
        post_id |-> PostId(post.url),
        post_parent |-> 0,
        pub_date |-> date_formats,
        content_encoded |-> ContentEncoded(post.content, post.url),
        attachment_url |-> NoSrc] >>
    \o [idx \in 1..Len(post.images) |->
            write_xml_attachment(post.images[idx], idx - 1, PostId(post.url), date_formats)]

ContentSymbols ==
    { ContentChar(c, FALSE) : c \in {"a", "]", ">"} }
    \cup { ContentChar(c, TRUE) : c \in {"]", ">"} }
    \cup { ContentImg(u) : u \in SrcForms }

\* before]]>after, a comment holding ]]>, an em dash before ]]>, and a
\* paragraph with three pictures
BeforeAfter == [k \in 1..5 |-> ContentChar(<< "a", "]", "]", ">", "a" >>[k], FALSE)]

CommentedClose == [k \in 1..4 |-> ContentChar(<< "a", "]", "]", ">" >>[k], k > 1)]

DashClose == << ContentChar("em-dash", FALSE) >> \o [k \in 1..3 |-> ContentChar(<< "]", "]", ">" >>[k], TRUE)]

ThreePictures == << ContentImg(SrcList[2]), ContentImg(SrcList[6]), ContentImg(SrcList[4]) >>

XmlContents ==
    UNION { [1..n -> ContentSymbols] : n \in 0..MaxContent }
    \cup { BeforeAfter, CommentedClose, DashClose, ThreePictures }

\* 1535-1548 with 1530: a post of extracted_data
XmlPost(url, content, date, inc) ==
    [status |-> "success", url |-> url, content |-> content, date |-> date,
     images |-> IF inc THEN ImagesOf(content) ELSE <<>>]

\* post["date"] as extract_date found it in the page: none, an ISO date, a
\* date with an ordinal suffix, a text that is no date, and a number larger
\* than any C integer
DateStrings == { "", "2023-11-27", "Nov 27th, 2023", "soon", "99999999999999999999" }

\* datetime.now(): the clock at the time of the call
Clock == { << 2026, 1, 1 >>, << 2026, 1, 2 >> }

\* 1788: re.sub(r'(\d+)(st|nd|rd|th)', r'\1', date_string)
RemoveOrdinals(date_string) ==
    IF date_string = "Nov 27th, 2023" THEN "Nov 27, 2023" ELSE date_string

\* dateutil.parser.parse(timestr, fuzzy=True, dayfirst=False), 1792: the
\* datetime, or the exception the parser raises: ParserError for a string
\* that holds no date, OverflowError for a date beyond the largest C integer
dateutil_parse(timestr) ==
    CASE timestr \in {"2023-11-27", "Nov 27, 2023"} -> [raises |-> "", value |-> << 2023, 11, 27 >>]
      [] timestr = "99999999999999999999" -> [raises |-> "OverflowError", value |-> <<>>]
      [] OTHER -> [raises |-> "ParserError", value |-> <<>>]

\* 1795: except (ValueError, TypeError, dateutil_parser.ParserError)
CaughtErrors == { "ValueError", "TypeError", "ParserError" }

\* 1801-1805
DateFormats(date_obj) ==
    [raises |-> "",
     rfc2822 |-> << "%a, %d %b %Y %H:%M:%S +0000", date_obj >>,
     mysql |-> << "%Y-%m-%d %H:%M:%S", date_obj >>,
     mysql_gmt |-> << "%Y-%m-%d %H:%M:%S", date_obj >>]

\* parse_and_format_date, 1776-1805: the three formats, or the exception
\* that leaves the function
parse_and_format_date(date_string, now) ==
    IF date_string = "" THEN DateFormats(now)
    ELSE LET parsed == dateutil_parse(RemoveOrdinals(date_string))
         IN  IF parsed.raises = "" THEN DateFormats(parsed.value)
             ELSE IF parsed.raises \in CaughtErrors THEN DateFormats(now)
             ELSE [raises |-> parsed.raises, rfc2822 |-> <<>>, mysql |-> <<>>, mysql_gmt |-> <<>>]

IdleXml ==
    /\ xml_data = <<>>
    /\ xml_next = 1
    /\ xml_items = <<>>

(***************************************************************************)
(* Metadata extraction: extract_title (737-761), extract_author            *)
(* (1253-1288), extract_categories (599-698) and extract_tags (700-735).   *)
(*                                                                         *)
(* The parsed page is the sequence, in document order, of the elements a   *)
(* selector of these functions can match.  An element is a record: kind    *)
(* names the selectors it matches, text is its get_text() (for a <meta>,   *)
(* its content attribute), a sequence of words and spaces.                 *)
(***************************************************************************)
MaxElements == 2

PageElement(kind, text) == [kind |-> kind, text |-> text]

\* element.get_text().strip() / str(content).strip() when element is a <meta>
Value(e) == Strip(e.text)

\* soup.select_one(selector): the first element, in document order, of a kind
\* the selector matches; <<>> when there is none
RECURSIVE select_one(_, _)
select_one(page, kinds) ==
    IF page = <<>> THEN <<>>
    ELSE IF Head(page).kind \in kinds THEN << Head(page) >>
    ELSE select_one(Tail(page), kinds)

\* soup.select(selector) / find_all: every element of a kind the selector matches
select(page, kinds) == SelectSeq(page, LAMBDA e : e.kind \in kinds)

\* the title selectors listed generic first
TitleSelectors_GenericFirst ==
    << {"title"},
       {"h1-post-title", "h1-slider-heading", "h1-H3vOVf", "h1"},
       {"h1-post-title"},
       {"h1-slider-heading"},
       {"h1-H3vOVf"},
       {"meta-og-title"} >>

\* 739-746: each selector as the set of element kinds it matches; 'h1' matches
\* every h1
TitleSelectors ==
    << {"h1-post-title"},
       {"h1-slider-heading"},
       {"h1-H3vOVf"},
       {"h1-post-title", "h1-slider-heading", "h1-H3vOVf", "h1"},
       {"title"},
       {"meta-og-title"} >>

\* 1266-1273
AuthorSelectors ==
    << {"user-name"}, {"meta-author"}, {"div-text-blog"}, {"author"}, {"byline"}, {"post-author"} >>

UntitledPost == << "Untitled Post" >>

UnknownAuthor == << "Unknown Author" >>

\* 748-761 and 1275-1288: the loop over the selectors
RECURSIVE FirstValue(_, _, _)
FirstValue(page, selectors, sentinel) ==
    IF selectors = <<>> THEN sentinel
    ELSE LET element == select_one(page, Head(selectors))
         IN  IF element # <<>> /\ Value(element[1]) # <<>> THEN Value(element[1])
             ELSE FirstValue(page, Tail(selectors), sentinel)

\* extract_title, 737-761
extract_title(page) == FirstValue(page, TitleSelectors, UntitledPost)

\* extract_author, 1253-1288: the link of the first
\* span.blog__entry__content__author (1256-1263), then the selectors
extract_author(page) ==
    LET author_container == select_one(page, {"author-span-link", "author-span"})
    IN  IF /\ author_container # <<>>
           /\ author_container[1].kind = "author-span-link"
           /\ Value(author_container[1]) # <<>>
        THEN Value(author_container[1])
        ELSE FirstValue(page, AuthorSelectors, UnknownAuthor)

\* the set of the non-empty stripped texts of a list of elements
Texts(elements) ==
    { Value(elements[k]) : k \in { j \in DOMAIN elements : Value(elements[j]) # <<>> } }

\* term in cat_lower: the terms of the two stop lists that a word of the
\* model contains once lowered
TermsIn(word) ==
    CASE word = "Home" -> {"home"}
      [] word = "Service" -> {"service"}
      [] OTHER -> {}

\* the stop-list terms a text contains
TermsOf(text) == UNION { TermsIn(text[k]) : k \in DOMAIN text }

\* len(cat.split())
WordCount(text) == Len(SelectSeq(text, LAMBDA w : w \notin Whitespace))

\* 671-678
CategoryExcludeTerms ==
    { "uncategorized", "blog", "all posts", "home", "about", "contact",
      "dealer", "dealership", "inventory", "service", "parts", "hours",
      "location", "directions", "finance", "specials", "reviews",
      "privacy", "sitemap", "careers", "testimonials", "team",
      "new inventory", "used inventory", "schedule service", "financing",
      "honda", "roanoke", "priority" }

\* 726
TagExcludeTerms == { "dealer", "dealership", "inventory", "home", "about", "contact" }

\* 680-687 and 727-732: the filter of a set of texts
Filtered(texts, exclude_terms, cap) ==
    { t \in texts : TermsOf(t) \cap exclude_terms = {} /\ WordCount(t) <= cap }

\* extract_categories, 599-698.  The anchors of kind meta-below-category
\* are the a[rel="category tag"] inside div.meta-below-content, which the
\* page-wide find_all of 642 matches as well.
extract_categories(page) ==
    LET meta_below == select(page, {"meta-below-category"})
        blog_entry == select(page, {"blog-entry-category"})
        categories_div == select(page, {"categories-div"})
        category_tag_links == select(page, {"meta-below-category", "rel-category"})
        wix == select(page, {"wix-category"})
        meta == select_one(page, {"meta-article-section"})
    IN  IF meta_below # <<>> THEN Texts(meta_below)
        ELSE IF blog_entry # <<>> THEN Texts(blog_entry)
        ELSE IF categories_div # <<>> THEN Texts(categories_div)
        ELSE IF category_tag_links # <<>> /\ Texts(category_tag_links) # {}
        THEN Texts(category_tag_links)
        ELSE Filtered(Texts(wix) \cup Texts(meta), CategoryExcludeTerms, 3)

\* extract_tags, 700-735
extract_tags(page) ==
    Filtered(Texts(select(page, {"dealeron-tag", "wix-tag", "generic-tag"})), TagExcludeTerms, 5)

TitleKinds == { "h1-post-title", "h1-slider-heading", "h1-H3vOVf", "h1", "title", "meta-og-title" }

AuthorKinds == { "author-span-link", "author-span", "user-name", "meta-author",
                 "div-text-blog", "author", "byline", "post-author" }

CategoryKinds == { "meta-below-category", "blog-entry-category", "categories-div",
                   "rel-category", "wix-category", "meta-article-section" }

TagKinds == { "dealeron-tag", "wix-tag", "generic-tag" }

\* texts of scalar fields: empty, blank, a word, a word between spaces
ScalarTexts == { <<>>, << " " >>, << "News" >>, << " ", "Tips", " " >> }

\* texts of set fields: blank, two plain ones, two with a stop-list term
\* ('service' is on the category list only), four words and six words
SetTexts ==
    { << " " >>, << "News" >>, << " ", "Tips", " " >>, << "Home" >>, << "Service" >>,
      << "how", " ", "to", " ", "buy", " ", "cars" >>,
      << "how", " ", "to", " ", "buy", " ", "cars", " ", "right", " ", "now" >> }

PagesOf(kinds, texts) ==
    UNION { [1..n -> { PageElement(k, t) : k \in kinds, t \in texts }] : n \in 0..MaxElements }

MetaPages ==
    PagesOf(TitleKinds, ScalarTexts) \cup PagesOf(AuthorKinds, ScalarTexts)
    \cup PagesOf(CategoryKinds, SetTexts) \cup PagesOf(TagKinds, SetTexts)

IdleMeta ==
    /\ soup = <<>>
    /\ meta_pc = "done"
    /\ title = <<>>
    /\ author = <<>>
    /\ categories = {}
    /\ post_tags = {}

\* no fetch_content call is modelled
IdleFetch ==
    /\ fetch_call = [async |-> FALSE, max_retries |-> 0, skip_playwright |-> FALSE,
                     has_playwright |-> FALSE, has_async_playwright |-> FALSE]
    /\ fetch_pc = "done"
    /\ fetch_attempt = 0
    /\ fetch_log = <<>>
    /\ fetch_result = None

\* extract.py 214-222: the run counts the returned results itself
IdleCli ==
    /\ quiet = TRUE
    /\ progress_calls = <<>>

\* no image download is under way
IdleDownload ==
    /\ image_posts = <<>>
    /\ download_tasks = <<>>
    /\ downloaded_images = <<>>
    /\ images_dir = {}
    /\ download_log = {}

\* no ID is derived
IdleIds ==
    /\ url_hash = 0
    /\ src_hash = 0
    /\ written_ids = <<>>

(***************************************************************************)
(* Initial states.                                                         *)
(***************************************************************************)
Indices == 1..NUrls

\* load_urls (1703-1733) keeps the lines of the file in order and does not
\* remove repeats: the list is either all distinct or repeats two URLs
UrlLists == { [i \in Indices |-> i], [i \in Indices |-> 1 + ((i - 1) % 2)] }

\* the pages the site serves, converted by the pipeline of Part 1
InitSite ==
    /\ content_of = [page \in Pages \cup {None} |->
                        IF page = None THEN EmptyContent ELSE extract_content(page, include_images)]
    /\ images_of = [content \in Pages \cup {EmptyContent} |->
                        extract_images_from_content(content, include_images)]

InitExtractor ==
    /\ seen_hashes = {}
    /\ extracted_data = <<>>
    /\ fetched = [i \in Indices |-> None]
    /\ results = [i \in Indices |-> NoRecord]
    /\ success_count = 0
    /\ duplicate_count = 0
    /\ feed = <<>>
    /\ next_url = 1
    /\ pc = [i \in Indices |-> "created"]
    /\ task_content = [i \in Indices |-> NoRecord]
    /\ sem_waiters = <<>>
    /\ raw_results = [i \in Indices |-> NoRecord]
    /\ processed_results = <<>>
    /\ InitSite

IdleHtml ==
    /\ stage = "source"
    /\ source_html = <<>>
    /\ html = <<>>
    /\ blocks = <<>>
    /\ recleaned = <<>>
    /\ reconverted = <<>>

\* extract.py 149-156 and 173: a sequential run
Init ==
    /\ urls \in UrlLists
    /\ skip_duplicates \in BOOLEAN
    /\ download_images \in BOOLEAN
    /\ include_images \in BOOLEAN
    /\ max_concurrent = 1
    /\ sem_value = 1
    /\ run_state = "running"
    /\ InitExtractor
    /\ IdleHtml
    /\ IdleXml
    /\ IdleMeta
    /\ IdleFetch
    /\ IdleCli
    /\ IdleIds
    /\ IdleDownload

\* 1671-1677: the semaphore and the tasks of a concurrent run
InitConc ==
    /\ urls \in UrlLists
    /\ skip_duplicates \in BOOLEAN
    /\ download_images \in BOOLEAN
    /\ include_images \in BOOLEAN
    /\ max_concurrent \in 1..MaxConcurrent
    /\ sem_value = max_concurrent
    /\ run_state = "gathering"
    /\ InitExtractor
    /\ IdleHtml
    /\ IdleXml
    /\ IdleMeta
    /\ IdleFetch
    /\ IdleCli
    /\ IdleIds
    /\ IdleDownload

InitPipeline ==
    /\ urls = [i \in Indices |-> i]
    /\ skip_duplicates = TRUE
    /\ download_images = FALSE
    /\ include_images \in BOOLEAN
    /\ max_concurrent = 1
    /\ sem_value = 1
    /\ run_state = "running"
    /\ InitExtractor
    /\ InitHtml
    /\ IdleXml
    /\ IdleMeta
    /\ IdleFetch
    /\ IdleCli
    /\ IdleIds
    /\ IdleDownload

(***************************************************************************)
(* The sequential run: extract.py main, 237-282 and 284-299.               *)
(***************************************************************************)
\* one iteration of the loop: data = extractor.extract_blog_data(url) and
\* the counting of its status
ExtractBlogData ==
    /\ run_state = "running"
    /\ next_url <= NUrls
    /\ \E page \in Pages \cup {None} :
          LET o == Extraction(urls[next_url], page, content_of[page], images_of[content_of[page]],
                              seen_hashes, skip_duplicates, include_images)
          IN  /\ fetched' = [fetched EXCEPT ![next_url] = page]
              /\ results' = [results EXCEPT ![next_url] = o.ret]
              /\ seen_hashes' = o.seen
              /\ extracted_data' = IF o.post THEN Append(extracted_data, o.ret) ELSE extracted_data
              /\ success_count' = success_count + (IF o.ret.status = "success" THEN 1 ELSE 0)
              /\ duplicate_count' = duplicate_count + (IF o.ret.status = "duplicate" THEN 1 ELSE 0)
    /\ next_url' = next_url + 1
    /\ UNCHANGED << configVars, downloadVars, idVars, cliVars, fetchVars, xmlVars, metaVars, concVars, htmlVars, run_state, feed >>

\* 284-299: after the loop the feed is saved when anything was extracted
SaveResults ==
    /\ run_state = "running"
    /\ next_url > NUrls
    /\ feed' = IF extracted_data # <<>> THEN get_xml_content(extracted_data) ELSE feed
    /\ run_state' = "saved"
    /\ UNCHANGED << configVars, downloadVars, idVars, cliVars, fetchVars, xmlVars, metaVars, concVars, htmlVars, seqVars, fetched, seen_hashes,
                    extracted_data, success_count, duplicate_count >>

Next == ExtractBlogData \/ SaveResults

Spec == Init /\ [][Next]_vars

NextHtml ==
    \/ CleanHtml /\ UNCHANGED << configVars, downloadVars, idVars, cliVars, fetchVars, xmlVars, metaVars, concVars, seqVars, fetched, seen_hashes,
                                 extracted_data, success_count, duplicate_count, run_state, feed >>
    \/ HtmlToGutenberg /\ UNCHANGED << configVars, downloadVars, idVars, cliVars, fetchVars, xmlVars, metaVars, concVars, seqVars, fetched, seen_hashes,
                                 extracted_data, success_count, duplicate_count, run_state, feed >>

SpecHtml == InitPipeline /\ [][NextHtml]_vars

(***************************************************************************)
(* The pipeline functions called a second time: clean_html on its own      *)
(* output, and html_to_gutenberg on the same cleaned fragment after the    *)
(* extractor has gone on extracting other pages in between.                *)
(***************************************************************************)
TwiceFragments == { <<n>> : n \in Trees(1) } \cup Scenarios

InitTwice ==
    /\ urls = [i \in Indices |-> i]
    /\ skip_duplicates = TRUE
    /\ download_images = FALSE
    /\ include_images \in BOOLEAN
    /\ max_concurrent = 1
    /\ sem_value = 1
    /\ run_state = "running"
    /\ InitExtractor
    /\ stage = "source"
    /\ source_html \in TwiceFragments
    /\ html = source_html
    /\ blocks = <<>>
    /\ recleaned = <<>>
    /\ reconverted = <<>>
    /\ IdleXml
    /\ IdleMeta
    /\ IdleFetch
    /\ IdleCli
    /\ IdleIds
    /\ IdleDownload

\* clean_html(clean_html(x)): the cleaned output is cleaned again
CleanHtmlAgain ==
    /\ stage = "cleaned"
    /\ recleaned' = clean_html(html, include_images)
    /\ stage' = "recleaned"
    /\ UNCHANGED << source_html, html, blocks, reconverted >>

\* html_to_gutenberg called again on the same cleaned fragment
HtmlToGutenbergAgain ==
    /\ stage = "converted"
    /\ reconverted' = html_to_gutenberg(html)
    /\ stage' = "reconverted"
    /\ UNCHANGED << source_html, html, blocks, recleaned >>

\* extract_blog_data calls made between the two conversions
ExtractBetween == stage = "converted" /\ ExtractBlogData

NextTwice ==
    \/ CleanHtml /\ UNCHANGED << configVars, downloadVars, idVars, cliVars, fetchVars, xmlVars, metaVars, concVars, seqVars, fetched, seen_hashes,
                                 extracted_data, success_count, duplicate_count, run_state, feed >>
    \/ CleanHtmlAgain /\ UNCHANGED << configVars, downloadVars, idVars, cliVars, fetchVars, xmlVars, metaVars, concVars, seqVars, fetched, seen_hashes,
                                 extracted_data, success_count, duplicate_count, run_state, feed >>
    \/ HtmlToGutenberg /\ UNCHANGED << configVars, downloadVars, idVars, cliVars, fetchVars, xmlVars, metaVars, concVars, seqVars, fetched, seen_hashes,
                                 extracted_data, success_count, duplicate_count, run_state, feed >>
    \/ HtmlToGutenbergAgain /\ UNCHANGED << configVars, downloadVars, idVars, cliVars, fetchVars, xmlVars, metaVars, concVars, seqVars, fetched, seen_hashes,
                                 extracted_data, success_count, duplicate_count, run_state, feed >>
    \/ ExtractBetween

SpecTwice == InitTwice /\ [][NextTwice]_vars

(***************************************************************************)
(* The feed writer on its own: save_to_xml over posts whose content is     *)
(* drawn from XmlContents.                                                 *)
(***************************************************************************)
SecondContents == { <<>>, BeforeAfter, ThreePictures }

InitXml ==
    /\ urls = [i \in Indices |-> i]
    /\ skip_duplicates = TRUE
    /\ download_images = FALSE
    /\ include_images \in BOOLEAN
    /\ max_concurrent = 1
    /\ sem_value = 1
    /\ run_state = "returned"
    /\ InitExtractor
    /\ IdleHtml
    /\ \E first \in { c \in XmlContents : include_images \/ \A k \in DOMAIN c : c[k].ch # "img" },
          first_date \in DateStrings :
          \/ xml_data = << XmlPost(PostUrls[1], first, first_date, include_images) >>
          \/ \E second \in { c \in SecondContents : include_images \/ \A k \in DOMAIN c : c[k].ch # "img" },
                second_date \in DateStrings :
                xml_data = << XmlPost(PostUrls[1], first, first_date, include_images),
                              XmlPost(PostUrls[2], second, second_date, include_images) >>
    /\ xml_next = 1
    /\ xml_items = <<>>
    /\ IdleMeta
    /\ IdleFetch
    /\ IdleCli
    /\ IdleIds
    /\ IdleDownload

\* one iteration of the loop of save_to_xml, 2301-2303
\* an exception of parse_and_format_date (2164) leaves _write_xml_post
\* before anything of the post is written, and leaves save_to_xml
WriteXmlPost ==
    /\ run_state = "returned"
    /\ xml_next <= Len(xml_data)
    /\ \E now \in Clock :
          LET post == xml_data[xml_next]
              date_formats == parse_and_format_date(post.date, now)
          IN  IF ~IsExported(post)
              THEN /\ xml_next' = xml_next + 1
                   /\ UNCHANGED << xml_items, run_state >>
              ELSE IF date_formats.raises # ""
              THEN /\ run_state' = "raised"
                   /\ UNCHANGED << xml_items, xml_next >>
              ELSE /\ xml_items' = xml_items \o XmlPostItems(post, date_formats)
                   /\ xml_next' = xml_next + 1
                   /\ UNCHANGED run_state
    /\ UNCHANGED << configVars, downloadVars, idVars, cliVars, fetchVars, concVars, htmlVars, metaVars, seqVars, fetched, seen_hashes,
                    extracted_data, success_count, duplicate_count, feed, xml_data >>

NextXml == WriteXmlPost

SpecXml == InitXml /\ [][NextXml]_vars

(***************************************************************************)
(* The metadata of one parsed page: extract_blog_data, 1495-1507.          *)
(***************************************************************************)
InitMeta ==
    /\ urls = [i \in Indices |-> i]
    /\ skip_duplicates = TRUE
    /\ download_images = FALSE
    /\ include_images = TRUE
    /\ max_concurrent = 1
    /\ sem_value = 1
    /\ run_state = "running"
    /\ InitExtractor
    /\ IdleHtml
    /\ IdleXml
    /\ IdleFetch
    /\ IdleCli
    /\ IdleIds
    /\ IdleDownload
    /\ soup \in MetaPages
    /\ meta_pc = "title"
    /\ title = <<>>
    /\ author = <<>>
    /\ categories = {}
    /\ post_tags = {}

\* 1503
ExtractTitle ==
    /\ meta_pc = "title"
    /\ title' = extract_title(soup)
    /\ meta_pc' = "author"
    /\ UNCHANGED << soup, author, categories, post_tags >>

\* 1504
ExtractAuthor ==
    /\ meta_pc = "author"
    /\ author' = extract_author(soup)
    /\ meta_pc' = "categories"
    /\ UNCHANGED << soup, title, categories, post_tags >>

\* 1506
ExtractCategories ==
    /\ meta_pc = "categories"
    /\ categories' = extract_categories(soup)
    /\ meta_pc' = "tags"
    /\ UNCHANGED << soup, title, author, post_tags >>

\* 1507
ExtractTags ==
    /\ meta_pc = "tags"
    /\ post_tags' = extract_tags(soup)
    /\ meta_pc' = "done"
    /\ UNCHANGED << soup, title, author, categories >>

NextMeta ==
    \/ ExtractTitle /\ UNCHANGED << configVars, downloadVars, idVars, cliVars, fetchVars, concVars, htmlVars, xmlVars, seqVars, fetched,
                                      seen_hashes, extracted_data, success_count,
                                      duplicate_count, run_state, feed >>
    \/ ExtractAuthor /\ UNCHANGED << configVars, downloadVars, idVars, cliVars, fetchVars, concVars, htmlVars, xmlVars, seqVars, fetched,
                                       seen_hashes, extracted_data, success_count,
                                       duplicate_count, run_state, feed >>
    \/ ExtractCategories /\ UNCHANGED << configVars, downloadVars, idVars, cliVars, fetchVars, concVars, htmlVars, xmlVars, seqVars, fetched,
                                           seen_hashes, extracted_data, success_count,
                                           duplicate_count, run_state, feed >>
    \/ ExtractTags /\ UNCHANGED << configVars, downloadVars, idVars, cliVars, fetchVars, concVars, htmlVars, xmlVars, seqVars, fetched,
                                     seen_hashes, extracted_data, success_count,
                                     duplicate_count, run_state, feed >>

SpecMeta == InitMeta /\ [][NextMeta]_vars

(***************************************************************************)
(* extract_content, 763-848, on a parsed page: the first selector whose    *)
(* element holds more than 100 characters of text gives the content.       *)
(* Every element a selector finds is first cleaned in place (795-833:      *)
(* scripts, breadcrumbs, title and date divs, 'Posted in' paragraphs are   *)
(* decomposed), whether it is then accepted or not, so the function        *)
(* returns the content and leaves the tree as the cleaning made it.  The   *)
(* pages of the model hold none of the platform classes of the selectors   *)
(* listed before 'article .entry-content' (766-782).                       *)
(***************************************************************************)
ClassOf(n) == IF HasAttr(n, "class") THEN n.attrs["class"] ELSE ""

\* the elements below an <article>, in document order
RECURSIVE InsideArticles(_)
InsideArticles(f) ==
    IF f = <<>> THEN <<>>
    ELSE LET n == Head(f)
         IN  (IF IsText(n) THEN <<>>
              ELSE IF n.tag = "article" THEN Descendants(n.kids)
              ELSE InsideArticles(n.kids))
             \o InsideArticles(Tail(f))

\* 784-789: the generic selectors in their listed order
ContentSelectors == << "article .entry-content", "article", ".post-content", ".content", "main" >>

\* the elements a selector matches, in document order
Matches(page, selector) ==
    CASE selector = "article .entry-content" ->
            SelectSeq(InsideArticles(page), LAMBDA n : ClassOf(n) = "entry-content")
      [] selector = "article" -> SelectSeq(Descendants(page), LAMBDA n : n.tag = "article")
      [] selector = ".post-content" ->
            SelectSeq(Descendants(page), LAMBDA n : ClassOf(n) = "post-content")
      [] selector = ".content" -> SelectSeq(Descendants(page), LAMBDA n : ClassOf(n) = "content")
      [] selector = "main" -> SelectSeq(Descendants(page), LAMBDA n : n.tag = "main")

\* a run of ten characters, one element of a text
TenChars == "xxxxxxxxxx"

\* len(text): an element of a text is one character, or the run of ten
RECURSIVE TextLength(_)
TextLength(text) ==
    IF text = <<>> THEN 0
    ELSE (IF Head(text) = TenChars THEN 10 ELSE 1) + TextLength(Tail(text))

\* 838-842: text_content and len(text_content) > 100
HasSubstantialText(content_elem) == TextLength(Strip(GetText(<< content_elem >>))) > 100

\* the tags of 796 and the classes of 800-825 whose elements are decomposed
UnwantedTags == {"script", "style", "noscript"}

UnwantedClasses == {"breadcrumbs", "content_title", "post-navigation", "titleDiv", "dateDiv",
                    "sharingIcons", "postmetadata"}

PostedIn == << "P", "o", "s", "t", "e", "d", " ", "i", "n" >>

CommentsOff == << "C", "o", "m", "m", "e", "n", "t", "s", " ", "O", "f", "f" >>

ConnectWithUs == << "C", "o", "n", "n", "e", "c", "t", " ", "w", "i", "t", "h", " ", "u", "s" >>

\* pat in s, and s.startswith(pat)
RECURSIVE Contains(_, _)
Contains(s, pat) ==
    IF Len(s) < Len(pat) THEN FALSE
    ELSE SubSeq(s, 1, Len(pat)) = pat \/ Contains(Tail(s), pat)

StartsWith(s, pat) == Len(s) >= Len(pat) /\ SubSeq(s, 1, Len(pat)) = pat

\* 796-825: found by tag, by class, or <nav aria-label="Breadcrumb">
IsUnwanted(n) ==
    \/ n.tag \in UnwantedTags
    \/ ClassOf(n) \in UnwantedClasses
    \/ n.tag = "nav" /\ HasAttr(n, "aria-label") /\ n.attrs["aria-label"] = "Breadcrumb"

\* 828-831: a paragraph of the category footer
IsPostedIn(n) ==
    /\ n.tag = "p"
    /\ LET p_text == Strip(GetText(<< n >>))
       IN  StartsWith(p_text, PostedIn) \/ Contains(p_text, CommentsOff)

\* 834-836: a 'Connect with us' heading
IsConnect(n) == n.tag \in {"h2", "h3", "h4"} /\ Contains(GetText(<< n >>), ConnectWithUs)

\* the rounds of 795-836, in the order of the code
CleanUpRounds == << "unwanted", "posted in", "connect" >>

Decomposed(round, n) ==
    CASE round = "unwanted" -> IsUnwanted(n)
      [] round = "posted in" -> IsPostedIn(n)
      [] round = "connect" -> IsConnect(n)

\* for x in elem.find_all(...): x.decompose(), one round
RECURSIVE Decompose(_, _)
Decompose(f, round) ==
    IF f = <<>> THEN <<>>
    ELSE LET n == Head(f)
         IN  (IF IsText(n) THEN << n >>
              ELSE IF Decomposed(round, n) THEN <<>>
              ELSE << [n EXCEPT !.kids = Decompose(n.kids, round)] >>)
             \o Decompose(Tail(f), round)

\* 795-836 on the children of content_elem
RECURSIVE CleanUpFrom(_, _)
CleanUpFrom(kids, rounds) ==
    IF rounds = <<>> THEN kids ELSE CleanUpFrom(Decompose(kids, Head(rounds)), Tail(rounds))

CleanUp(kids) == CleanUpFrom(kids, CleanUpRounds)

\* does soup.select_one(selector) stop at n; inside: n is below an <article>
Selects(selector, n, inside) ==
    CASE selector = "article .entry-content" -> inside /\ ClassOf(n) = "entry-content"
      [] selector = "article" -> n.tag = "article"
      [] selector = ".post-content" -> ClassOf(n) = "post-content"
      [] selector = ".content" -> ClassOf(n) = "content"
      [] selector = "main" -> n.tag = "main"

\* 792-836 on the tree: the first element the selector matches, in document
\* order, has its children cleaned in place; found tells whether one matched
RECURSIVE CleanFirst(_, _, _)
CleanFirst(f, selector, inside) ==
    IF f = <<>> THEN [found |-> FALSE, tree |-> <<>>]
    ELSE LET n == Head(f)
             rest == CleanFirst(Tail(f), selector, inside)
         IN  IF IsText(n) THEN [found |-> rest.found, tree |-> << n >> \o rest.tree]
             ELSE IF Selects(selector, n, inside)
             THEN [found |-> TRUE, tree |-> << [n EXCEPT !.kids = CleanUp(n.kids)] >> \o Tail(f)]
             ELSE LET below == CleanFirst(n.kids, selector, inside \/ n.tag = "article")
                  IN  IF below.found
                      THEN [found |-> TRUE,
                            tree |-> << [n EXCEPT !.kids = below.tree] >> \o Tail(f)]
                      ELSE [found |-> rest.found, tree |-> << n >> \o rest.tree]

\* 791-848: the loop over the selectors on the tree as the earlier rounds
\* left it; content <<>> is the "" of 848, soup is the tree at the return
RECURSIVE ExtractContentFrom(_, _, _)
ExtractContentFrom(page, selectors, inc) ==
    IF selectors = <<>> THEN [content |-> <<>>, soup |-> page]
    ELSE LET cleaned == CleanFirst(page, Head(selectors), FALSE)
             found == Matches(cleaned.tree, Head(selectors))
         IN  IF cleaned.found /\ HasSubstantialText(found[1])
             THEN [content |-> html_to_gutenberg(clean_html(found[1].kids, inc)),
                   soup |-> cleaned.tree]
             ELSE ExtractContentFrom(cleaned.tree, Tail(selectors), inc)

\* texts of 100 and of 101 characters
Hundred == [k \in 1..10 |-> TenChars]

Filler == Hundred \o << "x" >>

\* <h1>Old</h1><p>Hello <b>world</b></p>, the paragraph continued or not
ScenarioKids(more) ==
    << Elem("h1", << Text(<< "O", "l", "d" >>) >>),
       Elem("p", << Text(<< "H", "e", "l", "l", "o", " " >>),
                    Elem("b", << Text(<< "w", "o", "r", "l", "d" >>) >>) >> \o more) >>

Continued == << Text(<< " " >> \o Filler) >>

\* what the content element holds: the scenario, the scenario with a longer
\* paragraph, a paragraph of 100 characters, the small fragments followed
\* by a paragraph of 101, and an unwanted element before a paragraph of
\* 100 or of 101
\* elements that 795-836 remove: a script, a metadata footer, a 'Posted in'
\* paragraph, a 'Connect with us' heading
UnwantedElements ==
    { Elem("script", << Text(<< "x" >>) >>),
      ElemA("div", "class" :> "postmetadata", << Text(<< "x" >>) >>),
      Elem("p", << Text(PostedIn \o << " ", "x" >>) >>),
      Elem("h3", << Text(ConnectWithUs) >>) }

ContentKids ==
    { ScenarioKids(<<>>), ScenarioKids(Continued), << Elem("p", << Text(Hundred) >>) >> }
    \cup { f \o << Elem("p", << Text(Filler) >>) >> : f \in TwiceFragments }
    \cup { << u, Elem("p", << Text(t) >>) >> : u \in UnwantedElements, t \in { Hundred, Filler } }

\* the content element around the kids: <article class="entry-content">,
\* <article>, <article><div class="entry-content">, <div class="post-content">
ContentElements(kids) ==
    { << ElemA("article", "class" :> "entry-content", kids) >>,
      << Elem("article", kids) >>,
      << Elem("article", << ElemA("div", "class" :> "entry-content", kids) >>) >>,
      << ElemA("div", "class" :> "post-content", kids) >> }

\* a long text beside the content element
Sidebar == Elem("div", << Text(Filler) >>)

\* the page: the content element inside a <div>, a <main> or a
\* <div class="content">, alone or followed by the sidebar
ContentPages ==
    { << w >> : w \in UNION { UNION { { Elem("div", e \o extra), Elem("main", e \o extra),
                                       ElemA("div", "class" :> "content", e \o extra) }
                                     : extra \in { <<>>, << Sidebar >> } }
                             : e \in UNION { ContentElements(kids) : kids \in ContentKids } } }

InitContent ==
    /\ urls = [i \in Indices |-> i]
    /\ skip_duplicates = TRUE
    /\ download_images = FALSE
    /\ include_images \in BOOLEAN
    /\ max_concurrent = 1
    /\ sem_value = 1
    /\ run_state = "running"
    /\ InitExtractor
    /\ IdleXml
    /\ IdleMeta
    /\ IdleFetch
    /\ IdleCli
    /\ IdleIds
    /\ IdleDownload
    /\ stage = "source"
    /\ source_html \in ContentPages
    /\ html = <<>>
    /\ blocks = <<>>
    /\ recleaned = <<>>
    /\ reconverted = <<>>

\* content = self.extract_content(soup), 1510
ExtractContent ==
    /\ stage = "source"
    /\ LET r == ExtractContentFrom(source_html, ContentSelectors, include_images)
       IN  /\ blocks' = r.content
           /\ html' = r.soup
    /\ stage' = "extracted"
    /\ UNCHANGED << source_html, recleaned, reconverted >>
    /\ UNCHANGED << configVars, downloadVars, idVars, cliVars, fetchVars, xmlVars, metaVars, concVars, seqVars, fetched, seen_hashes,
                    extracted_data, success_count, duplicate_count, run_state, feed >>

NextContent == ExtractContent

SpecContent == InitContent /\ [][NextContent]_vars

(***************************************************************************)
(* The concurrent run: process_urls_concurrently (1658-1701) with          *)
(* HAS_ASYNC_PLAYWRIGHT.  The tasks are asyncio tasks of one event loop:   *)
(* a task runs alone from one await to the next, so each action below is   *)
(* the code between two suspension points.  asyncio.gather starts the      *)
(* tasks in list order; a task suspends in the semaphore (1632), in        *)
(* fetch_content_async (1558) and in _batch_download_images_async (1610).  *)
(***************************************************************************)
\* a fetched page on which the parsing or the field extraction raises
BrokenPage == 5

\* a semaphore that never makes a task wait
SemLocked_Never(value, waiters) == FALSE

\* asyncio.Semaphore.locked(), consulted by acquire() at 1632
SemLocked(value, waiters) == value = 0 \/ waiters # <<>>

\* an exception object collected by gather(return_exceptions=True), 1680
ExceptionResult ==
    [status |-> "exception", url |-> 0, error |-> "extraction error",
     content |-> EmptyContent, images |-> <<>>]

\* 1632 entered: the permit is taken, or the task joins the waiters
TaskStart(i) ==
    /\ run_state = "gathering"
    /\ pc[i] = "created"
    /\ \A j \in Indices : j < i => pc[j] # "created"
    /\ IF SemLocked(sem_value, sem_waiters)
       THEN /\ pc' = [pc EXCEPT ![i] = "waiting"]
            /\ sem_waiters' = Append(sem_waiters, i)
            /\ UNCHANGED sem_value
       ELSE /\ pc' = [pc EXCEPT ![i] = "fetching"]
            /\ sem_value' = sem_value - 1
            /\ UNCHANGED sem_waiters
    /\ UNCHANGED << configVars, downloadVars, idVars, cliVars, fetchVars, xmlVars, metaVars, htmlVars, seqVars, fetched, seen_hashes, extracted_data,
                    success_count, duplicate_count, run_state, feed,
                    task_content, raw_results, processed_results >>

\* 1632-1633 left by task i with result r: the permit goes to the first
\* waiter, which resumes in extract_blog_data_async, or back to the semaphore
Leave(i, r) ==
    /\ raw_results' = [raw_results EXCEPT ![i] = r]
    /\ IF sem_waiters = <<>>
       THEN /\ sem_value' = sem_value + 1
            /\ pc' = [pc EXCEPT ![i] = "done"]
            /\ UNCHANGED sem_waiters
       ELSE /\ pc' = [pc EXCEPT ![i] = "done", ![Head(sem_waiters)] = "fetching"]
            /\ sem_waiters' = Tail(sem_waiters)
            /\ UNCHANGED sem_value

\* 1608: if self.download_images and images
AwaitsDownload(ret) == download_images /\ ret.images # <<>>

\* 1558-1628 resumed after the fetch: the page is parsed, the duplicate
\* check made and the hash inserted without suspending; the task then
\* returns, or suspends in the image download with its dict in hand
FetchReturns(i) ==
    /\ pc[i] = "fetching"
    /\ \E page \in Pages \cup {None} :
          LET o == Extraction(urls[i], page, content_of[page], images_of[content_of[page]],
                              seen_hashes, skip_duplicates, include_images)
          IN  /\ fetched' = [fetched EXCEPT ![i] = page]
              /\ seen_hashes' = o.seen
              /\ IF o.post /\ AwaitsDownload(o.ret)
                 THEN /\ pc' = [pc EXCEPT ![i] = "downloading"]
                      /\ task_content' = [task_content EXCEPT ![i] = o.ret]
                      /\ UNCHANGED << extracted_data, raw_results, sem_value, sem_waiters >>
                 ELSE /\ extracted_data' = IF o.post THEN Append(extracted_data, o.ret)
                                           ELSE extracted_data
                      /\ Leave(i, o.ret)
                      /\ UNCHANGED task_content
    /\ UNCHANGED << configVars, downloadVars, idVars, cliVars, fetchVars, xmlVars, metaVars, htmlVars, seqVars, success_count, duplicate_count,
                    run_state, feed, processed_results >>

\* 1566-1583 raising in task i (parsing or field extraction of the fetched
\* page): the exception leaves the async with block and is the task's result
TaskRaises(i) ==
    /\ pc[i] = "fetching"
    /\ fetched' = [fetched EXCEPT ![i] = BrokenPage]
    /\ Leave(i, ExceptionResult)
    /\ UNCHANGED << configVars, downloadVars, idVars, cliVars, fetchVars, xmlVars, metaVars, htmlVars, seqVars, seen_hashes, extracted_data,
                    success_count, duplicate_count, run_state, feed,
                    task_content, processed_results >>

\* 1610-1628 resumed after the downloads: the dict is appended and returned
DownloadDone(i) ==
    /\ pc[i] = "downloading"
    /\ extracted_data' = Append(extracted_data, task_content[i])
    /\ task_content' = [task_content EXCEPT ![i] = NoRecord]
    /\ Leave(i, task_content[i])
    /\ UNCHANGED << configVars, downloadVars, idVars, cliVars, fetchVars, xmlVars, metaVars, htmlVars, seqVars, fetched, seen_hashes,
                    success_count, duplicate_count, run_state, feed, processed_results >>

\* a loop that passes every raw result on as it is
HandleRaw_Keep(raw, url) == raw

\* 1684-1695: an exception becomes a failed dict carrying urls[i]
HandleRaw(raw, url) ==
    IF raw.status = "exception"
    THEN [status |-> "failed", url |-> url, error |-> raw.error,
          content |-> EmptyContent, images |-> <<>>]
    ELSE raw

\* 1680-1701: gather returns once every task is done
ProcessResults ==
    /\ run_state = "gathering"
    /\ \A i \in Indices : pc[i] = "done"
    /\ processed_results' = [i \in Indices |-> HandleRaw(raw_results[i], urls[i])]
    /\ run_state' = "returned"
    /\ UNCHANGED << configVars, downloadVars, idVars, cliVars, fetchVars, xmlVars, metaVars, htmlVars, seqVars, fetched, seen_hashes, extracted_data,
                    success_count, duplicate_count, feed,
                    pc, task_content, sem_value, sem_waiters, raw_results >>

CountStatus(rs, st) == Cardinality({ i \in DOMAIN rs : rs[i].status = st })

\* extract.py 217-222 and 284-299: the statuses are counted and the feed saved
SaveResultsConc ==
    /\ run_state = "returned"
    /\ success_count' = CountStatus(processed_results, "success")
    /\ duplicate_count' = CountStatus(processed_results, "duplicate")
    /\ feed' = IF extracted_data # <<>> THEN get_xml_content(extracted_data) ELSE feed
    /\ run_state' = "saved"
    /\ UNCHANGED << configVars, downloadVars, idVars, cliVars, fetchVars, xmlVars, metaVars, htmlVars, seqVars, fetched, seen_hashes, extracted_data,
                    concVars >>

NextConc ==
    \/ \E i \in Indices : TaskStart(i)
    \/ \E i \in Indices : FetchReturns(i)
    \/ \E i \in Indices : TaskRaises(i)
    \/ \E i \in Indices : DownloadDone(i)
    \/ ProcessResults
    \/ SaveResultsConc

SpecConc == InitConc /\ [][NextConc]_vars

\* a run of either kind: extract.py 179-226 takes the concurrent branch when
\* args.concurrent > 1 and the sequential loop otherwise
InitRun == Init \/ InitConc

NextRun == Next \/ NextConc

SpecRun == InitRun /\ [][NextRun]_vars

(***************************************************************************)
(* The concurrent branch of extract.py main, 179-222: args.concurrent > 1. *)
(* Without --quiet the call of 211 passes progress_callback=               *)
(* update_progress; process_urls_concurrently (1658) is declared with      *)
(* (self, urls, max_concurrent) only, and nothing in it calls a callback.  *)
(***************************************************************************)
\* the parameters of process_urls_concurrently, 1658
ProcessUrlsParameters == {"urls", "max_concurrent"}

\* the arguments of the call: 211 without --quiet, 215 with it
CallArguments(q) ==
    IF q THEN {"urls", "max_concurrent"} ELSE {"urls", "max_concurrent", "progress_callback"}

InitCli ==
    /\ urls \in UrlLists
    /\ skip_duplicates = TRUE
    /\ download_images \in BOOLEAN
    /\ include_images \in BOOLEAN
    /\ max_concurrent \in 2..MaxConcurrent
    /\ sem_value = max_concurrent
    /\ run_state = "called"
    /\ InitExtractor
    /\ IdleHtml
    /\ IdleXml
    /\ IdleMeta
    /\ IdleFetch
    /\ quiet \in BOOLEAN
    /\ progress_calls = <<>>
    /\ IdleIds
    /\ IdleDownload

\* 211 / 215: the call binds its arguments to the parameters; a keyword
\* that is no parameter raises TypeError before the coroutine exists, and
\* the exception leaves main
CallProcessUrls ==
    /\ run_state = "called"
    /\ run_state' = IF CallArguments(quiet) \subseteq ProcessUrlsParameters
                    THEN "gathering" ELSE "raised"
    /\ UNCHANGED << configVars, downloadVars, idVars, cliVars, fetchVars, xmlVars, metaVars, htmlVars, seqVars, concVars,
                    fetched, seen_hashes, extracted_data, success_count, duplicate_count, feed >>

NextCli == CallProcessUrls \/ NextConc

SpecCli == InitCli /\ [][NextCli]_vars

(***************************************************************************)
(* The IDs of the feed as functions of the hash values: _write_xml_post    *)
(* 2166-2167 and _write_xml_attachment 2236-2237.  hash() of a str is any  *)
(* machine integer (it changes with PYTHONHASHSEED); the model draws it    *)
(* from the values around the multiples of the modulus.  Python's % with   *)
(* a positive modulus gives a result in 0..modulus-1 for every integer, as *)
(* % does here.                                                            *)
(***************************************************************************)
\* 2167, 2237: the modulus
IdModulus == 1000000

\* 2237: the offset of attachment IDs
AttachmentOffset == 1000000

Abs(n) == IF n < 0 THEN -n ELSE n

\* 2167: post_id = abs(hash(post["url"]) % 1000000) + 1
post_id_of(h) == Abs(h % IdModulus) + 1

\* 2237: attachment_id = abs(hash(image_src) % 1000000) + 1000000
attachment_id_of(h) == Abs(h % IdModulus) + AttachmentOffset

\* hash values: around 0 and around the multiples of the modulus, of both signs
HashValues ==
    UNION { { m * IdModulus - 2, m * IdModulus - 1, m * IdModulus, m * IdModulus + 1,
              m * IdModulus + 2 } : m \in -2..2 }

InitIds ==
    /\ urls = [i \in Indices |-> i]
    /\ skip_duplicates = TRUE
    /\ download_images = FALSE
    /\ include_images = TRUE
    /\ max_concurrent = 1
    /\ sem_value = 1
    /\ run_state = "returned"
    /\ InitExtractor
    /\ IdleHtml
    /\ IdleXml
    /\ IdleMeta
    /\ IdleFetch
    /\ IdleCli
    /\ IdleDownload
    /\ url_hash \in HashValues
    /\ src_hash \in HashValues
    /\ written_ids = <<>>

\* 2167, 2173: the post's item carries post_id
WritePostId ==
    /\ written_ids = <<>>
    /\ written_ids' = << [post_type |-> "post", post_id |-> post_id_of(url_hash)] >>
    /\ UNCHANGED << url_hash, src_hash >>
    /\ UNCHANGED << configVars, downloadVars, cliVars, fetchVars, xmlVars, metaVars, htmlVars, seqVars, concVars,
                    fetched, seen_hashes, extracted_data, success_count, duplicate_count,
                    run_state, feed >>

\* 2237, 2279: the item of an image of the post carries attachment_id
WriteAttachmentId ==
    /\ Len(written_ids) = 1
    /\ written_ids' = Append(written_ids, [post_type |-> "attachment",
                                           post_id |-> attachment_id_of(src_hash)])
    /\ UNCHANGED << url_hash, src_hash >>
    /\ UNCHANGED << configVars, downloadVars, cliVars, fetchVars, xmlVars, metaVars, htmlVars, seqVars, concVars,
                    fetched, seen_hashes, extracted_data, success_count, duplicate_count,
                    run_state, feed >>

NextIds == WritePostId \/ WriteAttachmentId

SpecIds == InitIds /\ [][NextIds]_vars

(***************************************************************************)
(* fetch_content (322-457) and fetch_content_async (459-597), one          *)
(* iteration of a retry loop per step.  What an attempt and the platform   *)
(* check give is the network's choice.  The loops, in the order of the     *)
(* code:                                                                   *)
(*   "fast mode"  467-484  requests, fetch_content_async with              *)
(*                         skip_playwright                                 *)
(*   "detect"     331-332, 494-495  _quick_platform_check                  *)
(*   "fast path"  340-357, 504-521  requests, when the platform is static  *)
(*   "playwright" 363-429, 527-595                                         *)
(*   "fallback"   432-455  requests, fetch_content only                    *)
(***************************************************************************)
MaxRetries == 3

\* delay = 2 ** attempt
Backoff_Constant(attempt) == 1

Backoff(attempt) == 2 ^ attempt

\* a call: fetch_content(url, max_retries) or fetch_content_async(url,
\* max_retries), with self.skip_playwright, HAS_PLAYWRIGHT (58-60) and
\* HAS_ASYNC_PLAYWRIGHT (51-53)
FetchCalls ==
    [async : BOOLEAN, max_retries : 0..MaxRetries, skip_playwright : BOOLEAN,
     has_playwright : BOOLEAN, has_async_playwright : BOOLEAN]

\* 461-463: without async Playwright the async function calls fetch_content
RunsSync(call) == ~call.async \/ ~call.has_async_playwright

\* where the call goes when the loop it stands in is exhausted (or skipped)
AfterLoop(call, loop) ==
    CASE loop = "fast mode" -> "detect"
      [] loop = "fast path" ->
            IF RunsSync(call) THEN (IF call.has_playwright THEN "playwright" ELSE "fallback")
            ELSE "playwright"
      [] loop = "playwright" -> IF RunsSync(call) THEN "fallback" ELSE "done"
      [] loop = "fallback" -> "done"

InitFetch ==
    /\ urls = [i \in Indices |-> i]
    /\ skip_duplicates = TRUE
    /\ download_images = FALSE
    /\ include_images = TRUE
    /\ max_concurrent = 1
    /\ sem_value = 1
    /\ run_state = "running"
    /\ InitExtractor
    /\ IdleHtml
    /\ IdleXml
    /\ IdleMeta
    /\ IdleCli
    /\ IdleIds
    /\ IdleDownload
    /\ fetch_call \in FetchCalls
    /\ fetch_pc = IF ~RunsSync(fetch_call) /\ fetch_call.skip_playwright THEN "fast mode" ELSE "detect"
    /\ fetch_attempt = 0
    /\ fetch_log = <<>>
    /\ fetch_result = None

\* one iteration of `for attempt in range(max_retries)` of the loop: the
\* attempt succeeds and its content is returned, or it fails and, unless it
\* was the last, the call sleeps Backoff(attempt); range(0) is no iteration
Iteration(loop) ==
    /\ IF fetch_attempt >= fetch_call.max_retries
       THEN /\ fetch_pc' = AfterLoop(fetch_call, loop)
            /\ fetch_attempt' = 0
            /\ UNCHANGED << fetch_log, fetch_result >>
       ELSE \/ \E page \in Pages :
                 /\ fetch_log' = Append(fetch_log, [loop |-> loop, attempt |-> fetch_attempt,
                                                    ok |-> TRUE, delay |-> 0])
                 /\ fetch_result' = page
                 /\ fetch_pc' = "done"
                 /\ UNCHANGED fetch_attempt
            \/ /\ fetch_log' = Append(fetch_log,
                     [loop |-> loop, attempt |-> fetch_attempt, ok |-> FALSE,
                      delay |-> IF fetch_attempt < fetch_call.max_retries - 1
                                THEN Backoff(fetch_attempt) ELSE 0])
               /\ fetch_attempt' = fetch_attempt + 1
               /\ UNCHANGED << fetch_pc, fetch_result >>
    /\ UNCHANGED fetch_call
    /\ UNCHANGED << configVars, downloadVars, idVars, cliVars, xmlVars, metaVars, concVars, htmlVars, seqVars, fetched,
                    seen_hashes, extracted_data, success_count, duplicate_count, run_state, feed >>

\* 467-484
RequestsFastMode == fetch_pc = "fast mode" /\ Iteration("fast mode")

\* 331-332, 494-495: needs_js is what the platform check found (True when
\* the check itself failed)
DetectPlatform ==
    /\ fetch_pc = "detect"
    /\ \E needs_js \in BOOLEAN :
          fetch_pc' = IF needs_js THEN AfterLoop(fetch_call, "fast path") ELSE "fast path"
    /\ UNCHANGED << fetch_call, fetch_attempt, fetch_log, fetch_result >>
    /\ UNCHANGED << configVars, downloadVars, idVars, cliVars, xmlVars, metaVars, concVars, htmlVars, seqVars, fetched,
                    seen_hashes, extracted_data, success_count, duplicate_count, run_state, feed >>

\* 340-357, 504-521
RequestsFastPath == fetch_pc = "fast path" /\ Iteration("fast path")

\* 363-429, 527-595
PlaywrightAttempt == fetch_pc = "playwright" /\ Iteration("playwright")

\* 432-455
RequestsFallback == fetch_pc = "fallback" /\ Iteration("fallback")

NextFetch ==
    \/ RequestsFastMode
    \/ DetectPlatform
    \/ RequestsFastPath
    \/ PlaywrightAttempt
    \/ RequestsFallback

\* the function runs on until it returns: every request and every
\* Playwright step has a timeout, every sleep is finite
SpecFetch == InitFetch /\ [][NextFetch]_vars /\ WF_vars(NextFetch)

(***************************************************************************)
(* _batch_download_images_async (1635-1656) and _download_image_async      *)
(* (1885-1963) for posts whose extract_blog_data_async calls run           *)
(* concurrently on one event loop.  A coroutine runs alone from one await  *)
(* to the next, so an action is the stretch of code between two awaits;    *)
(* which ready coroutine runs next, and what the server answers, is        *)
(* chosen freely.  An image URL is the sequence of its path segments, the  *)
(* directory starts empty (132), and no URL is a redirecting endpoint      *)
(* (_resolve_image_url returns it as it is).                               *)
(***************************************************************************)
NPosts == 2
MaxImages == 2

\* two images that share their file name, as /a/pic.jpg and /b/pic.jpg
ImageUrls == { << "a", "pic.jpg" >>, << "b", "pic.jpg" >> }

\* the src lists extract_images_from_content (1379-1404) can give: one entry
\* per img element, a repeated src repeated
ImageLists == UNION { [1..n -> ImageUrls] : n \in 1..MaxImages }

\* the value of a local path that is None
NoPath == [name |-> "", counter |-> 0]

\* 1909-1910: Path(parsed.path).name
FileNameOf(img_url) == img_url[Len(img_url)]

\* 1921-1927: the first of name, name_1, name_2, ... that does not exist
RECURSIVE UniquePath(_, _, _)
UniquePath(dir, filename, counter) ==
    LET local_path == [name |-> filename, counter |-> counter]
    IN  IF local_path \in dir THEN UniquePath(dir, filename, counter + 1) ELSE local_path

\* the coroutines the gather of post i waits for
TasksOf(i) == { t \in DOMAIN download_tasks : download_tasks[t].post = i }

Ended == { "cached", "saved", "failed" }

InitDownload ==
    /\ urls = [i \in Indices |-> i]
    /\ skip_duplicates = TRUE
    /\ download_images = TRUE
    /\ include_images = TRUE
    /\ max_concurrent = NPosts
    /\ sem_value = 1
    /\ run_state = "returned"
    /\ InitExtractor
    /\ IdleHtml
    /\ IdleXml
    /\ IdleMeta
    /\ IdleFetch
    /\ IdleCli
    /\ IdleIds
    /\ image_posts \in [1..NPosts -> { [images |-> l, pc |-> "extracted"] : l \in ImageLists }]
    /\ download_tasks = <<>>
    /\ downloaded_images = [u \in ImageUrls |-> NoPath]
    /\ images_dir = {}
    /\ download_log = {}

\* 1607-1610, 1641-1656: a coroutine for every src that has no entry yet;
\* with none to wait for the post goes on to 1627
BatchDownloadImages(i) ==
    /\ image_posts[i].pc = "extracted"
    /\ download_images
    /\ LET NotDownloaded(u) == downloaded_images[u] = NoPath
           image_urls == SelectSeq(image_posts[i].images, NotDownloaded)
       IN  /\ download_tasks' = download_tasks \o
                  [k \in 1..Len(image_urls) |->
                      [post |-> i, url |-> image_urls[k], pc |-> "created", local_path |-> NoPath]]
           /\ image_posts' = [image_posts EXCEPT ![i].pc =
                                 IF image_urls = <<>> THEN "appended" ELSE "gathering"]
    /\ UNCHANGED << downloaded_images, images_dir, download_log >>
    /\ UNCHANGED << configVars, idVars, cliVars, fetchVars, xmlVars, metaVars, htmlVars, seqVars,
                    concVars, fetched, seen_hashes, extracted_data, success_count,
                    duplicate_count, run_state, feed >>

\* 1897-1930: up to the await of session.get
StartDownload(t) ==
    /\ download_tasks[t].pc = "created"
    /\ LET img_url == download_tasks[t].url
       IN  download_tasks' =
               IF downloaded_images[img_url] # NoPath
               THEN [download_tasks EXCEPT ![t].pc = "cached",
                                           ![t].local_path = downloaded_images[img_url]]
               ELSE [download_tasks EXCEPT ![t].pc = "requesting",
                                           ![t].local_path = UniquePath(images_dir, FileNameOf(img_url), 0)]
    /\ UNCHANGED << image_posts, downloaded_images, images_dir, download_log >>
    /\ UNCHANGED << configVars, idVars, cliVars, fetchVars, xmlVars, metaVars, htmlVars, seqVars,
                    concVars, fetched, seen_hashes, extracted_data, success_count,
                    duplicate_count, run_state, feed >>

\* 1930-1931: the GET is answered; raise_for_status or the connection may
\* raise, which 1961-1963 turn into None
GetResponse(t) ==
    /\ download_tasks[t].pc = "requesting"
    /\ download_log' = download_log \cup { [op |-> "get", task |-> t,
                                             url |-> download_tasks[t].url,
                                             path |-> download_tasks[t].local_path] }
    /\ \E ok \in BOOLEAN :
           download_tasks' = [download_tasks EXCEPT ![t].pc = IF ok THEN "opening" ELSE "failed"]
    /\ UNCHANGED << image_posts, downloaded_images, images_dir >>
    /\ UNCHANGED << configVars, idVars, cliVars, fetchVars, xmlVars, metaVars, htmlVars, seqVars,
                    concVars, fetched, seen_hashes, extracted_data, success_count,
                    duplicate_count, run_state, feed >>

\* 1935: aiofiles.open(local_path, 'wb') creates or truncates the file
OpenFile(t) ==
    /\ download_tasks[t].pc = "opening"
    /\ images_dir' = images_dir \cup { download_tasks[t].local_path }
    /\ download_log' = download_log \cup { [op |-> "open", task |-> t,
                                             url |-> download_tasks[t].url,
                                             path |-> download_tasks[t].local_path] }
    /\ download_tasks' = [download_tasks EXCEPT ![t].pc = "writing"]
    /\ UNCHANGED << image_posts, downloaded_images >>
    /\ UNCHANGED << configVars, idVars, cliVars, fetchVars, xmlVars, metaVars, htmlVars, seqVars,
                    concVars, fetched, seen_hashes, extracted_data, success_count,
                    duplicate_count, run_state, feed >>

\* 1936-1959: the chunks are written and the entry is made, or a chunk
\* raises (size limit, connection) and 1961-1963 return None
SaveImage(t) ==
    /\ download_tasks[t].pc = "writing"
    /\ \E ok \in BOOLEAN :
           IF ok
           THEN /\ downloaded_images' = [downloaded_images EXCEPT
                                            ![download_tasks[t].url] = download_tasks[t].local_path]
                /\ download_tasks' = [download_tasks EXCEPT ![t].pc = "saved"]
           ELSE /\ download_tasks' = [download_tasks EXCEPT ![t].pc = "failed"]
                /\ UNCHANGED downloaded_images
    /\ UNCHANGED << image_posts, images_dir, download_log >>
    /\ UNCHANGED << configVars, idVars, cliVars, fetchVars, xmlVars, metaVars, htmlVars, seqVars,
                    concVars, fetched, seen_hashes, extracted_data, success_count,
                    duplicate_count, run_state, feed >>

\* 1655-1656, 1612-1628: gather returns when every coroutine has ended
GatherReturns(i) ==
    /\ image_posts[i].pc = "gathering"
    /\ \A t \in TasksOf(i) : download_tasks[t].pc \in Ended
    /\ image_posts' = [image_posts EXCEPT ![i].pc = "appended"]
    /\ UNCHANGED << download_tasks, downloaded_images, images_dir, download_log >>
    /\ UNCHANGED << configVars, idVars, cliVars, fetchVars, xmlVars, metaVars, htmlVars, seqVars,
                    concVars, fetched, seen_hashes, extracted_data, success_count,
                    duplicate_count, run_state, feed >>

NextDownload ==
    \/ \E i \in 1..NPosts : BatchDownloadImages(i)
    \/ \E t \in DOMAIN download_tasks : StartDownload(t)
    \/ \E t \in DOMAIN download_tasks : GetResponse(t)
    \/ \E t \in DOMAIN download_tasks : OpenFile(t)
    \/ \E t \in DOMAIN download_tasks : SaveImage(t)
    \/ \E i \in 1..NPosts : GatherReturns(i)

SpecDownload == InitDownload /\ [][NextDownload]_vars

(***************************************************************************)
(* PART 3.  Properties.                                                    *)
(***************************************************************************)
\* the calls of the sequential loop that have returned
Called == 1..(next_url - 1)

\* call i fetched a page that converts to non-empty content
HasContent(i) == fetched[i] # None /\ content_of[fetched[i]] # EmptyContent

\* an earlier call of the sequential run fetched the same converted content
SeenBefore(i) ==
    \E j \in 1..(i - 1) : fetched[j] # None /\ content_of[fetched[j]] = content_of[fetched[i]]

\* C1: with skip_duplicates on, in a sequence of extract_blog_data calls the
\* first URL whose converted content is a non-empty string C returns
\* 'success' and every later URL with the same converted content returns
\* 'duplicate'; the run's counters count exactly those statuses.
C1_FirstSuccessThenDuplicate ==
    skip_duplicates =>
        /\ \A i \in Called :
              HasContent(i) =>
                  results[i].status = (IF SeenBefore(i) THEN "duplicate" ELSE "success")
        /\ success_count = Cardinality({ i \in Called : results[i].status = "success" })
        /\ duplicate_count = Cardinality({ i \in Called : results[i].status = "duplicate" })

\* two URLs serving different markup that converts to the same content:
\* the first is a success, the second a duplicate, counted 1 and 1
C1_Witness ==
    /\ skip_duplicates
    /\ next_url = 3
    /\ urls[1] # urls[2]
    /\ fetched[1] = 2 /\ fetched[2] = 3
    /\ results[1].status = "success" /\ results[2].status = "duplicate"
    /\ success_count = 1 /\ duplicate_count = 1

\* what task i holds or has returned as a post
TaskPost(i) == IF pc[i] = "downloading" THEN task_content[i] ELSE raw_results[i]

\* the tasks that went through the duplicate check with content c
CheckedWith(c) ==
    { i \in Indices : /\ pc[i] \in {"downloading", "done"}
                      /\ raw_results[i].status # "exception"
                      /\ fetched[i] # None
                      /\ content_of[fetched[i]] = c }

\* C2: in a concurrent run with skip_duplicates on, under every
\* interleaving, among the tasks whose converted content is the same
\* non-empty string exactly one is a success and all the others are
\* duplicates, and extracted_data never holds two records with the same
\* content (hence the same fingerprint).
C2_OneSuccessPerContent ==
    skip_duplicates =>
        /\ \A c \in Pages :
              CheckedWith(c) # {} =>
                  /\ Cardinality({ i \in CheckedWith(c) : TaskPost(i).status = "success" }) = 1
                  /\ \A i \in CheckedWith(c) : TaskPost(i).status \in {"success", "duplicate"}
        /\ \A k, l \in DOMAIN extracted_data :
              (k # l /\ extracted_data[k].content # EmptyContent)
                  => extracted_data[k].content # extracted_data[l].content

\* two tasks ran side by side on the same content and the later URL of
\* the list won the check: it is the success, the earlier one the duplicate
C2_Witness ==
    /\ skip_duplicates
    /\ run_state = "returned"
    /\ \E i, j \in Indices :
          /\ i < j
          /\ processed_results[i].status = "duplicate"
          /\ processed_results[j].status = "success"
          /\ fetched[i] # fetched[j]
          /\ content_of[fetched[i]] = content_of[fetched[j]]
          /\ Len(extracted_data) = 1

\* the tasks inside extract_blog_data_async
Inside == { i \in Indices : pc[i] \in {"fetching", "downloading"} }

\* C3: in a concurrent run at most max_concurrent tasks are inside
\* extract_blog_data_async at any moment; every task inside holds one
\* permit, and a task that has finished or raised holds none.
C3_SemaphoreBound ==
    /\ Cardinality(Inside) <= max_concurrent
    /\ sem_value >= 0
    /\ sem_value + Cardinality(Inside) = max_concurrent

\* the limit is reached with a task still waiting, after another task
\* raised and gave its permit back
C3_Witness ==
    /\ run_state = "gathering"
    /\ Cardinality(Inside) = max_concurrent
    /\ \E i \in Indices : pc[i] = "done" /\ raw_results[i].status = "exception"
    /\ \E i \in Indices : pc[i] = "waiting"

\* the record the run holds for URL i, NoRecord while there is none
RunRecord(i) ==
    IF run_state \in {"returned", "saved"} /\ processed_results # <<>>
    THEN processed_results[i]
    ELSE IF raw_results[i] # NoRecord THEN raw_results[i] ELSE results[i]

\* C4: a URL whose fetch yields nothing gets a record with status 'failed',
\* that URL and a reason, in the sequential loop and in a concurrent run;
\* the run goes on: the loop moves to the next URL, no task is cancelled,
\* and when the run ends every URL of the list has its record.
C4_FetchFailureIsRecorded ==
    /\ \A i \in Indices :
          (RunRecord(i) # NoRecord /\ RunRecord(i).status # "exception" /\ fetched[i] = None)
              => /\ RunRecord(i).status = "failed"
                 /\ RunRecord(i).url = urls[i]
                 /\ RunRecord(i).error # ""
    /\ \A i \in Called : results[i] # NoRecord
    /\ run_state \in {"returned", "saved"} =>
          \A i \in Indices : RunRecord(i).status \in {"success", "duplicate", "failed"}

\* the first URL of a sequential run failed to fetch and a later one was
\* extracted and saved
C4_Witness ==
    /\ run_state = "saved"
    /\ max_concurrent = 1
    /\ results[1].status = "failed"
    /\ fetched[1] = None
    /\ \E j \in Indices : j > 1 /\ results[j].status = "success"
    /\ feed # <<>>

\* C5: a page that is fetched but has no substantial content area
\* (extract_content returns the empty string) is recorded with status
\* 'failed' and a reason that is not the fetch-failure reason; it is not a
\* 'success' and is not among the exported posts.
C5_NoContentIsFailed ==
    \A i \in Called :
        (fetched[i] # None /\ content_of[fetched[i]] = EmptyContent)
            => /\ results[i].status = "failed"
               /\ results[i].error # ""
               /\ results[i].error # FailedRecord(urls[i]).error
               /\ \A k \in DOMAIN extracted_data : extracted_data[k].content # EmptyContent

\* C6: with skip_duplicates off, a post whose content was already seen in
\* this run is still appended to extracted_data and exported, and its
\* record carries a duplicate flag that a first occurrence does not carry.
C6_RepeatIsIncludedAndFlagged ==
    ~skip_duplicates =>
        \A i \in Called :
            (HasContent(i) /\ SeenBefore(i))
                => /\ \E k \in DOMAIN extracted_data : extracted_data[k] = results[i]
                   /\ results[i].status = "duplicate" \/ results[i].error = "Duplicate content"

RECURSIVE IsSubsequence(_, _)
IsSubsequence(s, t) ==
    IF s = <<>> THEN TRUE
    ELSE IF t = <<>> THEN FALSE
    ELSE IF Head(s) = Head(t) THEN IsSubsequence(Tail(s), Tail(t))
    ELSE IsSubsequence(s, Tail(t))

Links(items) == [k \in 1..Len(items) |-> items[k].link]

\* C8: the order of the post items in the feed is the same in every run on
\* the same URL list with the same fetch outcomes, sequential or concurrent
\* under any interleaving: it is the order the sequential run gives, the
\* posts standing in the order of their URLs in the list.
C8_FeedOrderIsInputOrder ==
    run_state = "saved" =>
        IsSubsequence(Links(PostItems(feed)), [i \in Indices |-> urls[i]])

\* the calls that have returned: of the loop, or of finished tasks
Returned(i) == IF raw_results[i] # NoRecord THEN raw_results[i] ELSE results[i]

SuccessCalls(u) == { i \in Indices : Returned(i).status = "success" /\ urls[i] = u }

Occurrences(seq, u) == Cardinality({ k \in DOMAIN seq : seq[k] = u })

Urls == { urls[i] : i \in Indices }

DataUrls == [k \in 1..Len(extracted_data) |-> extracted_data[k].url]

\* C9 as stated: extracted_data holds only 'success' records, one per call
\* that returned 'success', the feed one post item for each, and no URL
\* whose extraction returned 'failed' or 'duplicate' is an item of the feed.
C9_NoFailedUrlInFeed ==
    /\ \A k \in DOMAIN extracted_data : extracted_data[k].status = "success"
    /\ \A u \in Urls : Occurrences(DataUrls, u) = Cardinality(SuccessCalls(u))
    /\ run_state = "saved" =>
          /\ Links(PostItems(feed)) = DataUrls
          /\ \A i \in Indices :
                Returned(i).status \in {"failed", "duplicate"}
                    => Occurrences(Links(PostItems(feed)), urls[i]) = 0

\* C9: extracted_data holds only 'success' records, one per call that
\* returned 'success'; the saved feed has one post item for each record, in
\* the same order; a call that returned 'failed' or 'duplicate' adds no
\* item: a URL is the link of as many post items as calls on it returned
\* 'success', so a URL none of whose calls succeeded is not in the feed.
C9_OneItemPerSuccess ==
    /\ \A k \in DOMAIN extracted_data : extracted_data[k].status = "success"
    /\ \A u \in Urls : Occurrences(DataUrls, u) = Cardinality(SuccessCalls(u))
    /\ run_state = "saved" =>
          /\ Links(PostItems(feed)) = DataUrls
          /\ \A u \in Urls :
                Occurrences(Links(PostItems(feed)), u) = Cardinality(SuccessCalls(u))

\* a saved run where one URL failed, one was a duplicate and one URL,
\* listed twice, succeeded once: the feed has that one post item
C9_Witness ==
    /\ run_state = "saved"
    /\ \E i, j, k \in Indices :
          /\ Returned(i).status = "failed"
          /\ Returned(j).status = "duplicate"
          /\ Returned(k).status = "success"
          /\ urls[j] = urls[k]
    /\ Len(PostItems(feed)) = 1
    /\ Len(feed) > 1

HeadingBlocks == { k \in DOMAIN blocks : blocks[k].block = "heading" }

TopLevel(f, tags) == { k \in DOMAIN f : ~IsText(f[k]) /\ f[k].tag \in tags }

\* C10 as stated: no heading block has level 1, the levels are in 2..6, and
\* every source <h1> is emitted as a heading block of level 2.
C10_EveryH1IsAHeadingBlock ==
    stage = "converted" =>
        /\ \A k \in HeadingBlocks : blocks[k].level \in 2..6
        /\ Cardinality({ k \in HeadingBlocks : blocks[k].level = 2 })
               = CountTag(source_html, {"h1"})

\* C10: no heading block has level 1 and all levels are in 2..6; clean_html
\* keeps every source <h1> as an <h2> (no <h1> is left and none is
\* deleted); each heading standing at the top level of the cleaned
\* fragment is emitted as a heading block of its level, 2 for a former
\* <h1>, while a heading nested in a list, a quote or inline markup stays
\* inside the block of its parent.
C10_H1BecomesH2 ==
    /\ stage \in {"cleaned", "converted"} =>
          /\ CountTag(html, {"h1"}) = 0
          /\ CountTag(html, {"h2"}) = CountTag(source_html, {"h1", "h2"})
          /\ CountTag(html, HeadingTags) = CountTag(source_html, HeadingTags)
    /\ stage = "converted" =>
          /\ \A k \in HeadingBlocks : blocks[k].level \in 2..6
          /\ \A k \in HeadingBlocks : blocks[k].html[1].tag = "h2" <=> blocks[k].level = 2
          /\ Cardinality(HeadingBlocks) = Cardinality(TopLevel(html, HeadingTags))
          /\ Cardinality({ k \in HeadingBlocks : blocks[k].level = 2 })
                 = Cardinality(TopLevel(html, {"h2"}))

\* a fragment with two <h1>, one at the top level or in a wrapper or
\* paragraph and one nested deeper: one heading block of level 2 comes out
C10_Witness ==
    /\ stage = "converted"
    /\ CountTag(source_html, {"h1"}) = 2
    /\ TopLevel(source_html, {"h1"}) = {}
    /\ Cardinality({ k \in HeadingBlocks : blocks[k].level = 2 }) = 1

\* the <ul>/<ol> elements of f whose direct children include an element
\* other than <li>
BadLists(f) ==
    { k \in 1..Len(Descendants(f)) :
          /\ Descendants(f)[k].tag \in ListTags
          /\ \E c \in DOMAIN Descendants(f)[k].kids :
                /\ ~IsText(Descendants(f)[k].kids[c])
                /\ Descendants(f)[k].kids[c].tag # "li" }

\* C11: after clean_html no <ul> or <ol>, nested or inside a paragraph or
\* not, has a direct child element other than <li>; so no list block
\* holds a direct non-<li> element, and <ul><p>note</p><li>item</li></ul> gives the list
\* block <ul><li>item</li></ul> followed at once by the paragraph block
\* <p>note</p>.
C11_ListsHoldOnlyItems ==
    /\ stage \in {"cleaned", "converted"} => BadLists(html) = {}
    /\ stage = "converted" =>
          /\ \A k \in DOMAIN blocks : blocks[k].block = "list" => BadLists(blocks[k].html) = {}
          /\ source_html = MisplacedListChild =>
                blocks = << Block("list", 0, << Elem("ul", << Elem("li", <<Text(<<"i", "t", "e", "m">>)>>) >>) >>),
                            Block("paragraph", 0, << Elem("p", <<Text(<<"n", "o", "t", "e">>)>>) >>) >>

\* the fragment <ul><p>note</p><li>item</li></ul> converted: a list block
\* and then a paragraph block
C11_Witness ==
    /\ stage = "converted"
    /\ source_html = MisplacedListChild
    /\ BadLists(source_html) # {}
    /\ Len(blocks) = 2
    /\ blocks[1].block = "list" /\ blocks[2].block = "paragraph"

\* C12: clean_html is idempotent: cleaning its own output again gives the
\* same fragment, clean_html(clean_html(x)) = clean_html(x).
C12_CleanHtmlIsIdempotent ==
    stage = "recleaned" => recleaned = html

RECURSIVE Find(_, _)
Find(s, pat) ==
    IF Len(s) < Len(pat) THEN 0
    ELSE IF SubSeq(s, 1, Len(pat)) = pat THEN 1
    ELSE LET r == Find(Tail(s), pat) IN IF r = 0 THEN 0 ELSE r + 1

\* the character data an XML parser reads from the text of an element: a
\* CDATA section runs to the first ]]> after its <![CDATA[
RECURSIVE ParseXmlText(_)
ParseXmlText(s) ==
    IF s = <<>> THEN <<>>
    ELSE IF Len(s) >= Len(CdataOpen) /\ SubSeq(s, 1, Len(CdataOpen)) = CdataOpen
    THEN LET rest == SubSeq(s, Len(CdataOpen) + 1, Len(s))
             e == Find(rest, CdataClose)
         IN  IF e = 0 THEN rest
             ELSE SubSeq(rest, 1, e - 1) \o ParseXmlText(SubSeq(rest, e + 3, Len(rest)))
    ELSE << Head(s) >> \o ParseXmlText(Tail(s))

\* the posts save_to_xml has written
Written == 1..(xml_next - 1)

\* the number of items written for the first n posts
RECURSIVE ItemsBefore(_)
ItemsBefore(n) ==
    IF n = 0 THEN 0 ELSE ItemsBefore(n - 1) + 1 + Len(xml_data[n].images)

\* the position in the feed of the item of post i
ItemOf(i) == ItemsBefore(i - 1) + 1

\* C14: a content that holds ]]> comes back from the feed unchanged: the
\* text an XML parser reads from the content:encoded element of the post is
\* the post's content string.
C14_CdataRoundTrip ==
    \A i \in Written :
        Find(Str(xml_data[i].content), CdataClose) # 0
            => ParseXmlText(xml_items[ItemOf(i)].content_encoded) = Str(xml_data[i].content)

IsAbsoluteHttp(u) == u.scheme \in {"http", "https"} /\ u.netloc # ""

\* C15: in the feed every image src of a post's content that is not empty
\* and every attachment's URL is absolute (the writer puts no local path in
\* the feed), whatever form the src had in the page.
C15_ImageUrlsAreAbsolute ==
    \A k \in DOMAIN xml_items :
        /\ xml_items[k].post_type = "attachment" => IsAbsoluteHttp(xml_items[k].attachment_url)
        /\ \A n \in DOMAIN ParseXmlText(xml_items[k].content_encoded) :
              /\ ParseXmlText(xml_items[k].content_encoded)[n].ch = "img"
              /\ ParseXmlText(xml_items[k].content_encoded)[n].src # NoSrc
                  => IsAbsoluteHttp(ParseXmlText(xml_items[k].content_encoded)[n].src)

\* C16: the item of a written post with k images is followed directly by
\* exactly k attachment items, each with the post's wp:post_id as its
\* wp:post_parent; the next item, if any, is the next post's.
C16_AttachmentsFollowTheirPost ==
    /\ Len(xml_items) = ItemsBefore(xml_next - 1)
    /\ \A i \in Written :
          LET at == ItemOf(i)
              k == Len(xml_data[i].images)
          IN  /\ xml_items[at].post_type = "post"
              /\ xml_items[at].post_id = PostId(xml_data[i].url)
              /\ \A j \in 1..k :
                    /\ xml_items[at + j].post_type = "attachment"
                    /\ xml_items[at + j].post_parent = xml_items[at].post_id
                    /\ xml_items[at + j].attachment_url = xml_data[i].images[j]
              /\ at + k < Len(xml_items) => xml_items[at + k + 1].post_type = "post"

\* two posts written, the first with two images or more, the second with
\* three
C16_Witness ==
    /\ xml_next = 3
    /\ Len(xml_data[1].images) >= 2
    /\ Len(xml_data[2].images) = 3
    /\ Len(xml_items) = 2 + Len(xml_data[1].images) + 3
    /\ xml_items[2].post_type = "attachment"
    /\ xml_items[2].post_parent = xml_items[1].post_id

(***************************************************************************)
(* The metadata of a page (SpecMeta).                                      *)
(***************************************************************************)
\* the elements of the page a candidate selector of the field matches: every
\* element of the kinds, but of the <meta> elements only the first
Matched(kinds, single) ==
    { k \in DOMAIN soup :
        /\ soup[k].kind \in kinds
        /\ soup[k].kind \in single => \A j \in 1..(k - 1) : soup[j].kind # soup[k].kind }

\* a text passes the stop list and the word cap
Passes(text, exclude_terms, cap) ==
    /\ \A k \in DOMAIN text : TermsIn(text[k]) \cap exclude_terms = {}
    /\ Cardinality({ k \in DOMAIN text : text[k] \notin Whitespace }) <= cap

\* the field holds the matches of all candidates, filtered
AccumulatedAndFiltered(field, kinds, single, exclude_terms, cap) ==
    /\ \A text \in field : Passes(text, exclude_terms, cap)
    /\ \A k \in Matched(kinds, single) :
          Strip(soup[k].text) # <<>> /\ Passes(Strip(soup[k].text), exclude_terms, cap)
              => Strip(soup[k].text) \in field

\* C17: categories and tags hold the matches of all candidate selectors
\* that match, and every category and tag returned has passed the stop list
\* and the word cap (3 words for categories, 5 for tags), whichever
\* selector produced it.
C17_SetFieldsAccumulateAndFilter ==
    /\ meta_pc \in {"tags", "done"}
          => AccumulatedAndFiltered(categories, CategoryKinds, {"meta-article-section"},
                                    CategoryExcludeTerms, 3)
    /\ meta_pc = "done"
          => AccumulatedAndFiltered(post_tags, TagKinds, {}, TagExcludeTerms, 5)

\* the stripped value of the first element of the kinds, <<>> without one
CandidateValue(kinds) ==
    IF \A k \in DOMAIN soup : soup[k].kind \notin kinds THEN <<>>
    ELSE Strip(soup[CHOOSE k \in DOMAIN soup :
                       /\ soup[k].kind \in kinds
                       /\ \A j \in 1..(k - 1) : soup[j].kind \notin kinds].text)

\* the candidates of the title in the listed order: the three platform h1
\* selectors, then h1, title and the og:title meta
TitleCandidates ==
    << CandidateValue({"h1-post-title"}), CandidateValue({"h1-slider-heading"}),
       CandidateValue({"h1-H3vOVf"}),
       CandidateValue({"h1-post-title", "h1-slider-heading", "h1-H3vOVf", "h1"}),
       CandidateValue({"title"}), CandidateValue({"meta-og-title"}) >>

\* the candidates of the author: the author link of the first DealerOn
\* author span, then the six selectors
AuthorCandidates ==
    << IF \E k \in DOMAIN soup :
             /\ soup[k].kind = "author-span-link"
             /\ \A j \in 1..(k - 1) : soup[j].kind \notin {"author-span-link", "author-span"}
       THEN CandidateValue({"author-span-link"}) ELSE <<>>,
       CandidateValue({"user-name"}), CandidateValue({"meta-author"}),
       CandidateValue({"div-text-blog"}), CandidateValue({"author"}),
       CandidateValue({"byline"}), CandidateValue({"post-author"}) >>

\* value is the first non-empty candidate, or the sentinel when all are empty
FirstNonEmpty(value, candidates, sentinel) ==
    /\ value # <<>>
    /\ \/ \E i \in DOMAIN candidates :
             /\ candidates[i] # <<>>
             /\ value = candidates[i]
             /\ \A j \in 1..(i - 1) : candidates[j] = <<>>
       \/ /\ \A i \in DOMAIN candidates : candidates[i] = <<>>
          /\ value = sentinel
    /\ value = sentinel <=> \A i \in DOMAIN candidates : candidates[i] = <<>>

C19_BadDateNeverAborts ==
    /\ run_state # "raised"
    /\ \A i \in Written :
          LET item == xml_items[ItemOf(i)]
          IN  /\ item.pub_date.raises = ""
              /\ item.pub_date.rfc2822 # <<>> /\ item.pub_date.mysql # <<>>
              /\ item.pub_date.mysql_gmt # <<>>
              /\ xml_data[i].date \in {"", "soon"} => item.pub_date.mysql[2] \in Clock

(***************************************************************************)
(* The extracted content of a page (SpecContent).                          *)
(***************************************************************************)
\* <div><article class="entry-content">...</article></div>
ScenarioPage(more) ==
    << Elem("div", << ElemA("article", "class" :> "entry-content", ScenarioKids(more)) >>) >>

\* one heading block of level 2 with the text Old and one paragraph block
\* holding <strong>world</strong>
IsScenarioContent(bs) ==
    /\ Len(bs) = 2
    /\ bs[1].block = "heading" /\ bs[1].level = 2
    /\ Len(bs[1].html) = 1 /\ bs[1].html[1].tag = "h2"
    /\ GetText(bs[1].html) = << "O", "l", "d" >>
    /\ bs[2].block = "paragraph"
    /\ Len(bs[2].html) = 1 /\ bs[2].html[1].tag = "p"
    /\ \E k \in DOMAIN bs[2].html[1].kids :
          bs[2].html[1].kids[k] = Elem("strong", << Text(<< "w", "o", "r", "l", "d" >>) >>)
    /\ \A k \in DOMAIN Descendants(bs[2].html) : Descendants(bs[2].html)[k].tag # "b"

HoldsUnwanted(f) ==
    \E k \in 1..Len(Descendants(f)) :
        \E round \in { CleanUpRounds[j] : j \in 1..Len(CleanUpRounds) } :
            Decomposed(round, Descendants(f)[k])

\* C21: extract_content leaves the parsed document unchanged: the tree that
\* extract_links reads after the call (html) is the tree that was parsed
\* (source_html), also when a candidate content area was cleaned and then
\* rejected for holding 100 or fewer characters of text.
C21_DocumentIsUnchanged == stage = "extracted" => html = source_html

(***************************************************************************)
(* The walk of html_to_gutenberg over the top-level nodes (SpecHtml).      *)
(***************************************************************************)
\* a top-level node that joins a run: an element, or a text that is not blank
JoinsRun(n) == IF IsText(n) THEN Strip(n.text) # <<>> ELSE TRUE

\* the nodes of g from position k up to the next node ends(_) holds of
RECURSIVE RunFrom(_, _, _)
RunFrom(g, k, ends) ==
    IF k > Len(g) \/ g[k] \in ends THEN <<>>
    ELSE (IF JoinsRun(g[k]) THEN << g[k] >> ELSE <<>>) \o RunFrom(g, k + 1, ends)

\* the elements of g that end a run
BlockLevelIn(g) == { g[k] : k \in { j \in 1..Len(g) : ~IsText(g[j]) /\ g[j].tag \in BlockLevelTags } }

ButtonsIn(g) == { g[k] : k \in { j \in 1..Len(g) : ~IsText(g[j]) /\ IsButton(g[j]) } }

\* position k starts a run: it is the first node or follows a node of ends
StartsRun(g, k, ends) == g[k] \notin ends /\ (k = 1 \/ g[k - 1] \in ends)

\* the names of the blocks a walk gives when the nodes of ends give one
\* block each and each run between them that holds something gives one
\* paragraph
RECURSIVE NamesFrom(_, _, _)
NamesFrom(g, k, ends) ==
    IF k > Len(g) THEN <<>>
    ELSE (IF g[k] \in ends THEN << element_to_gutenberg_block(g[k]).block >>
          ELSE IF StartsRun(g, k, ends) /\ RunFrom(g, k, ends) # <<>> THEN << "paragraph" >>
          ELSE <<>>)
         \o NamesFrom(g, k + 1, ends)

\* the same walk, with the blocks themselves
RECURSIVE BlocksFrom(_, _, _)
BlocksFrom(g, k, ends) ==
    IF k > Len(g) THEN <<>>
    ELSE (IF g[k] \in ends THEN << element_to_gutenberg_block(g[k]) >>
          ELSE IF StartsRun(g, k, ends) /\ RunFrom(g, k, ends) # <<>>
          THEN << [block |-> "paragraph", level |-> 0,
                   html |-> << Elem("p", RunFrom(g, k, ends)) >>] >>
          ELSE <<>>)
         \o BlocksFrom(g, k + 1, ends)

BlockNames == [k \in 1..Len(blocks) |-> blocks[k].block]

\* C22 as stated: the blocks follow the top-level nodes of the fragment, one
\* block for each p, h1-h6, ul, ol, blockquote, pre or img and one paragraph
\* block for each maximal run of inline elements and non-blank texts between
\* them.
C22_OneBlockPerElementOrRun ==
    stage = "converted" => BlockNames = NamesFrom(html, 1, BlockLevelIn(html))

\* C22: the blocks follow, in order, the top-level nodes the fragment has
\* once the button links of its paragraphs stand behind them: each
\* block-level element and each button link gives its one block, and each
\* maximal run of other elements and non-blank texts between those gives
\* exactly one paragraph block holding the run, in order and whole.
C22_BlocksFollowTopLevelNodes ==
    stage = "converted" =>
        LET g == HoistButtons(html)
        IN  blocks = BlocksFrom(g, 1, BlockLevelIn(g) \cup ButtonsIn(g))

\* a fragment converted whose top level holds a run of two nodes and a
\* block-level element
C22_Witness ==
    /\ stage = "converted"
    /\ Len(blocks) >= 2
    /\ \E k \in 1..Len(html) :
          /\ StartsRun(html, k, BlockLevelIn(html) \cup ButtonsIn(html))
          /\ Len(RunFrom(html, k, BlockLevelIn(html) \cup ButtonsIn(html))) >= 2
    /\ BlockLevelIn(html) # {}

(***************************************************************************)
(* The retries of one fetch (SpecFetch).                                   *)
(***************************************************************************)
\* the attempts of the log made in one of the given loops
AttemptsIn(loops) == { k \in 1..Len(fetch_log) : fetch_log[k].loop \in loops }

Loops == {"fast mode", "fast path", "playwright", "fallback"}

\* the loops the finished call had to go through: those of its log
\* and, for a call that returned None, every loop on its way
Exhausted(loop) ==
    Cardinality({ k \in AttemptsIn({loop}) : ~fetch_log[k].ok }) = fetch_call.max_retries

\* every failed attempt of the log that was not the last of its loop was
\* followed by 2^attempt seconds, the last by none; a success ends the log
BackoffIsExponential ==
    \A k \in 1..Len(fetch_log) :
        LET e == fetch_log[k]
        IN  /\ e.attempt \in 0..(fetch_call.max_retries - 1)
            /\ e.ok => k = Len(fetch_log) /\ fetch_pc = "done" /\ fetch_result # None
            /\ ~e.ok => e.delay = (IF e.attempt = fetch_call.max_retries - 1 THEN 0
                                    ELSE 2 ^ e.attempt)

\* the loops a call that returns None has to have exhausted whatever the
\* platform: in fetch_content_async with async Playwright the Playwright
\* loop and, with skip_playwright, the fast mode loop; in fetch_content the
\* fallback and, with Playwright, the Playwright loop
Applicable ==
    IF fetch_call.async /\ fetch_call.has_async_playwright
    THEN {"playwright"} \cup (IF fetch_call.skip_playwright THEN {"fast mode"} ELSE {})
    ELSE {"fallback"} \cup (IF fetch_call.has_playwright THEN {"playwright"} ELSE {})

C24_ProgressCallbackOncePerUrl ==
    ~quiet =>
        /\ run_state # "raised"
        /\ run_state \in {"returned", "saved"} =>
              /\ Len(progress_calls) = NUrls
              /\ \A i \in Indices : \E k \in 1..Len(progress_calls) :
                    progress_calls[k] = processed_results[i]

(***************************************************************************)
(* The derived IDs (SpecIds).                                              *)
(***************************************************************************)
\* C25: every post ID written is a positive integer, and no attachment ID
\* written equals a post ID, whatever the hash values of the URLs.
C25_IdsNeverClash ==
    \A j \in 1..Len(written_ids) :
        written_ids[j].post_type = "post" =>
            /\ written_ids[j].post_id > 0
            /\ \A k \in 1..Len(written_ids) :
                  written_ids[k].post_type = "attachment" =>
                      written_ids[k].post_id # written_ids[j].post_id

(***************************************************************************)
(* Duplicates and their originals (SpecRun).                               *)
(***************************************************************************)
\* a success record with the fingerprint h
IsOriginal(record, h) ==
    /\ record.status = "success"
    /\ record.content # EmptyContent
    /\ get_content_hash(record.content) = h

\* C26: whenever a URL has the status 'duplicate', a 'success' record with
\* the same content fingerprint is in extracted_data, or, while the
\* concurrent run is still gathering, in the hands of a task suspended in
\* its image download, which appends it before the run ends: when the run
\* has returned, the record is in extracted_data.
C26_DuplicateHasExportedOriginal ==
    \A i \in Indices :
        RunRecord(i).status = "duplicate" =>
            LET h == get_content_hash(content_of[fetched[i]])
            IN  \/ \E k \in DOMAIN extracted_data : IsOriginal(extracted_data[k], h)
                \/ /\ run_state = "gathering"
                   /\ \E j \in Indices : pc[j] = "downloading" /\ IsOriginal(task_content[j], h)

\* a duplicate was reported while the first occurrence of its content is
\* still downloading images and has no record in extracted_data yet
C26_Witness ==
    /\ run_state = "gathering"
    /\ \E i, j \in Indices :
          /\ raw_results[i].status = "duplicate"
          /\ pc[j] = "downloading"
          /\ IsOriginal(task_content[j], get_content_hash(content_of[fetched[i]]))
          /\ \A k \in DOMAIN extracted_data :
                ~IsOriginal(extracted_data[k], get_content_hash(content_of[fetched[i]]))

(***************************************************************************)
(* The frame of an extraction (SpecRun).                                   *)
(***************************************************************************)
\* the URLs whose extraction returns in this step, with what it returns
ReturnsNow(i, r) ==
    \/ /\ run_state = "running" /\ next_url = i /\ next_url' = i + 1
       /\ r = results'[i]
    \/ /\ run_state = "gathering" /\ pc[i] # "done" /\ pc'[i] = "done"
       /\ r = raw_results'[i]

\* the URLs whose extraction is between its duplicate check and its return
\* after this step
ChecksNow(i) == pc[i] = "fetching" /\ pc'[i] = "downloading"

\* C27: seen_hashes and extracted_data only grow: a step removes or alters
\* no entry; the step in which an extraction returns 'failed' or 'duplicate'
\* changes neither, and such an extraction never held the floor before; the
\* step in which an extraction returns 'success' appends exactly its one
\* record; a hash is added (at most one) only by an extraction that goes on
\* to return 'success', in its one step from the duplicate check.
C27_AppendOnly ==
    [][ /\ seen_hashes \subseteq seen_hashes'
        /\ Cardinality(seen_hashes' \ seen_hashes) <= 1
        /\ Len(extracted_data') >= Len(extracted_data)
        /\ SubSeq(extracted_data', 1, Len(extracted_data)) = extracted_data
        /\ \A i \in Indices : \A r \in { results'[i], raw_results'[i] } :
              ReturnsNow(i, r) =>
                  /\ r.status \in {"failed", "duplicate", "exception"} =>
                        /\ seen_hashes' = seen_hashes
                        /\ extracted_data' = extracted_data
                        /\ pc[i] # "downloading"
                  /\ r.status = "success" =>
                        /\ extracted_data' = Append(extracted_data, r)
                        /\ pc[i] = "downloading" => seen_hashes' = seen_hashes
        /\ seen_hashes' # seen_hashes =>
              \E i \in Indices :
                  /\ \/ ChecksNow(i) /\ task_content'[i].status = "success"
                     \/ ReturnsNow(i, results'[i]) /\ results'[i].status = "success"
                     \/ ReturnsNow(i, raw_results'[i]) /\ raw_results'[i].status = "success"
                  /\ seen_hashes' = seen_hashes \cup {get_content_hash(content_of[fetched'[i]])}
        /\ extracted_data' # extracted_data =>
              \E i \in Indices : \E r \in { results'[i], raw_results'[i] } :
                  ReturnsNow(i, r) /\ r.status = "success"
      ]_vars

\* a run that met a success, a duplicate of it and a failed fetch: one
\* record and one hash
C27_Witness ==
    /\ \E i, j, k \in Indices :
          /\ RunRecord(i).status = "success" /\ RunRecord(i).content # EmptyContent
          /\ RunRecord(j).status = "duplicate"
          /\ RunRecord(k).status = "failed"
    /\ Len(extracted_data) = 1
    /\ Cardinality(seen_hashes) = 1

(***************************************************************************)
(* The order of hoisted elements (SpecHtml).                               *)
(***************************************************************************)
\* the tags of the nodes of f, in order
TagSeq(f) == [k \in 1..Len(f) |-> IF IsText(f[k]) THEN "#text" ELSE NormalizeTagName(f[k].tag)]

\* the places of tag t in a sequence of tags
PlacesOf(t, ts) == { k \in 1..Len(ts) : ts[k] = t }

\* the tags of moved, each met once in moved and once at the top level of
\* f, stand at the top level of f in the order they have in moved
OrderKept(moved, f) ==
    \A a, b \in 1..Len(moved) :
        /\ a < b
        /\ Cardinality(PlacesOf(moved[a], moved)) = 1
        /\ Cardinality(PlacesOf(moved[b], moved)) = 1
        /\ Cardinality(PlacesOf(moved[a], TagSeq(f))) = 1
        /\ Cardinality(PlacesOf(moved[b], TagSeq(f))) = 1
        => \A k \in PlacesOf(moved[a], TagSeq(f)) : \A l \in PlacesOf(moved[b], TagSeq(f)) : k < l

\* the direct children of a list that are elements other than <li>
NonItems(list_elem) == SelectSeq(list_elem.kids, LAMBDA c : ~IsText(c) /\ c.tag # "li")

\* the headings, and with include_images the images, below a paragraph
Misplaced(p) ==
    SelectSeq(Descendants(p.kids),
              LAMBDA c : c.tag \in HeadingTags \/ (include_images /\ c.tag = "img"))

\* C28: the elements hoisted out of a list stand after it, and the headings
\* and images hoisted out of a paragraph before it, in the relative order
\* they have in the source.
C28_HoistedKeepSourceOrder ==
    (stage = "cleaned" /\ Len(source_html) = 1 /\ ~IsText(source_html[1])) =>
        /\ source_html[1].tag \in ListTags => OrderKept(TagSeq(NonItems(source_html[1])), html)
        /\ source_html[1].tag = "p" => OrderKept(TagSeq(Misplaced(source_html[1])), html)

(***************************************************************************)
(* Paragraph blocks and their text (SpecHtml).                             *)
(***************************************************************************)
\* C29: every paragraph block the pipeline emits holds text that is not
\* blank, also when button links, headings or images were moved out of the
\* paragraph.
C29_NoEmptyParagraphBlock ==
    stage = "converted" =>
        \A k \in 1..Len(blocks) :
            blocks[k].block = "paragraph" => Strip(GetText(blocks[k].html)) # <<>>

(***************************************************************************)
(* Image downloads (SpecDownload).                                         *)
(***************************************************************************)
\* the entries of the log for operation op
LogOf(op) == { e \in download_log : e.op = op }

\* every URL is requested at most once
OncePerUrl ==
    \A e, f \in LogOf("get") : e.url = f.url => e.task = f.task

\* no two downloads open the same local path for writing
PathsDistinct ==
    \A e, f \in LogOf("open") : e.path = f.path => e.task = f.task

\* an entry of downloaded_images comes from a download that was saved, and
\* a download that failed left none
EntriesAreSaved ==
    /\ \A u \in ImageUrls :
           downloaded_images[u] # NoPath =>
               \E t \in DOMAIN download_tasks :
                   /\ download_tasks[t].url = u
                   /\ download_tasks[t].pc = "saved"
                   /\ download_tasks[t].local_path = downloaded_images[u]
    /\ \A t \in DOMAIN download_tasks :
           download_tasks[t].pc = "failed" =>
               downloaded_images[download_tasks[t].url] # download_tasks[t].local_path
                   \/ \E o \in DOMAIN download_tasks :
                          /\ o # t
                          /\ download_tasks[o].pc = "saved"
                          /\ download_tasks[o].url = download_tasks[t].url
                          /\ download_tasks[o].local_path = download_tasks[t].local_path

\* C30: with download_images on, every distinct image URL is downloaded at
\* most once in a run, no two downloads write to the same local path, under
\* every interleaving of the download tasks, and a failed download leaves no
\* entry in downloaded_images.
C30_DownloadOnceToDistinctPaths ==
    image_posts # <<>> => OncePerUrl /\ PathsDistinct /\ EntriesAreSaved

====
